---- MODULE Spec2Model ----
(***************************************************************************)
(* A model of devflow's framework/runtime compatibility resolver:          *)
(*   tools/nuget_api.py      NuGetAPI (normalizer, compatibility table,    *)
(*                           get_compatible_versions, get_package_versions)*)
(*   tools/google_search.py  GoogleSearchAPI (Java runtime table, search,  *)
(*                           the extraction functions and the checks)      *)
(*   tools/tools.py          the tool functions and the search fallback    *)
(* Python strings are modelled as sequences of one-character strings, so   *)
(* that lower(), replace(), startswith() and the substring test `in` are   *)
(* computed character by character as the interpreter computes them.       *)
(***************************************************************************)
EXTENDS Integers, Sequences, FiniteSets, TLC

VARIABLES
    ic_target,      \* _is_framework_compatible: argument `target`
    ic_supported,   \* _is_framework_compatible: argument `supported`
    ic_result,      \* _is_framework_compatible: [returned, value]
    catalog,        \* the registry's version catalog for the package (data source)
    call,           \* get_compatible_versions: arguments and fetch outcome of the last call
    result,         \* get_compatible_versions: the returned envelope
    jv_results,     \* the extraction functions: argument `results`
    jv_target,      \* the extraction functions: argument `target_runtime` or
                    \* `target_framework`
    jv_info,        \* the extraction functions: the returned value
    nz_input,       \* _normalize_framework: the string first passed
    nz_outputs,     \* _normalize_framework: what successive applications returned
    history,        \* the requests sent to the data sources, oldest first
    rl_state,       \* rate_limit_callback: callback_context.state
    rl_now          \* rate_limit_callback: the clock time.time() reads

vars == <<ic_target, ic_supported, ic_result, catalog, call, result,
          jv_results, jv_target, jv_info, nz_input, nz_outputs, history,
          rl_state, rl_now>>

\* Python's None: a value no character sequence equals
None == <<"None">>

-----------------------------------------------------------------------------
(* Python str primitives over character sequences.                         *)

UpperChars == <<"A","B","C","D","E","F","G","H","I","J","K","L","M",
                "N","O","P","Q","R","S","T","U","V","W","X","Y","Z">>
LowerChars == <<"a","b","c","d","e","f","g","h","i","j","k","l","m",
                "n","o","p","q","r","s","t","u","v","w","x","y","z">>

\* str.lower() on one character
LowerChar(c) ==
    IF \E i \in 1..Len(UpperChars) : UpperChars[i] = c
    THEN LowerChars[CHOOSE i \in 1..Len(UpperChars) : UpperChars[i] = c]
    ELSE c

\* str.lower()
Lower(s) == [i \in 1..Len(s) |-> LowerChar(s[i])]

\* str.replace(c, '') for a one-character c
RECURSIVE Remove(_, _)
Remove(s, c) ==
    IF s = <<>> THEN <<>>
    ELSE IF Head(s) = c THEN Remove(Tail(s), c)
    ELSE <<Head(s)>> \o Remove(Tail(s), c)

\* str.startswith(p)
StartsWith(s, p) == Len(s) >= Len(p) /\ SubSeq(s, 1, Len(p)) = p

\* the substring test `p in s`
Contains(s, p) ==
    \E i \in 0..(Len(s) - Len(p)) : SubSeq(s, i + 1, i + Len(p)) = p

\* `x in list`
InList(x, list) == \E i \in 1..Len(list) : list[i] = x

-----------------------------------------------------------------------------
(* Identifier literals.                                                    *)

S_net == <<"n","e","t">>
S_std == <<"n","e","t","s","t","a","n","d","a","r","d">>
S_java == <<"j","a","v","a">>

\* "net" + d, "netstandard" + d and "java" + d
Net(d)  == S_net \o d
Std(d)  == S_std \o d
Java(d) == S_java \o d

net20 == Net(<<"2","0">>)
net45 == Net(<<"4","5">>)
net48 == Net(<<"4","8">>)
netstandard2_0 == Std(<<"2",".","0">>)
net6_0 == Net(<<"6",".","0">>)

\* mutant of UpTo45: the list literal without "net35"
UpTo45_without_net35 == <<net45, Net(<<"4","0">>), net20>>

\* the two list literals of FRAMEWORK_COMPATIBILITY that are no suffix of
\* another: ["net45", "net40", "net35", "net20"] and ["net48", ..., "net20"]
UpTo45 == <<net45, Net(<<"4","0">>), Net(<<"3","5">>), net20>>
UpTo48 == <<net48, Net(<<"4","7","2">>), Net(<<"4","7","1">>), Net(<<"4","7">>),
            Net(<<"4","6","2">>), Net(<<"4","6","1">>), Net(<<"4","6">>),
            Net(<<"4","5","2">>), Net(<<"4","5","1">>)>> \o UpTo45

\* NuGetAPI.FRAMEWORK_COMPATIBILITY, in the dict's insertion order: the twelve
\* netstandard*/net6.0/net7.0/net8.0 rows, then the rows net48 ... net20, the
\* list of each being the tail of net48's list that starts at its own key
FRAMEWORK_COMPATIBILITY ==
    << [key |-> Std(<<"1",".","0">>), compatible |-> UpTo45],
       [key |-> Std(<<"1",".","1">>), compatible |-> UpTo45],
       [key |-> Std(<<"1",".","2">>), compatible |-> UpTo45],
       [key |-> Std(<<"1",".","3">>), compatible |-> UpTo45],
       [key |-> Std(<<"1",".","4">>), compatible |-> UpTo45],
       [key |-> Std(<<"1",".","5">>), compatible |-> UpTo45],
       [key |-> Std(<<"1",".","6">>), compatible |-> UpTo45],
       [key |-> netstandard2_0, compatible |-> UpTo48],
       [key |-> Std(<<"2",".","1">>), compatible |-> UpTo48],
       [key |-> net6_0, compatible |-> UpTo48],
       [key |-> Net(<<"7",".","0">>), compatible |-> UpTo48],
       [key |-> Net(<<"8",".","0">>), compatible |-> UpTo48] >>
    \o [i \in 1..Len(UpTo48) |->
           [key |-> UpTo48[i], compatible |-> SubSeq(UpTo48, i, Len(UpTo48))]]

-----------------------------------------------------------------------------
(* NuGetAPI: normalizer and compatibility lookup.                          *)

\* mutant of normalize_framework: "net" is prepended whether or not the
\* stripped form already starts with it
normalize_always_prefix(framework) ==
    S_net \o Remove(Remove(Lower(framework), "."), "-")

\* mutant of normalize_framework: only '.' is removed, '-' is kept
normalize_keeps_dash(framework) ==
    LET f == Remove(Lower(framework), ".")
    IN  IF StartsWith(f, S_net) THEN f ELSE S_net \o f

\* NuGetAPI._normalize_framework
normalize_framework(framework) ==
    LET f == Remove(Remove(Lower(framework), "."), "-")
    IN  IF StartsWith(f, S_net) THEN f ELSE S_net \o f

\* mutant of compat_loop: the answer of the first list holding the target is
\* returned, later entries are never tried
RECURSIVE compat_loop_first_only(_, _, _)
compat_loop_first_only(target, supported, i) ==
    IF i > Len(FRAMEWORK_COMPATIBILITY) THEN FALSE
    ELSE LET compatible_frameworks == FRAMEWORK_COMPATIBILITY[i].compatible
         IN  IF InList(target, compatible_frameworks)
             THEN \E j \in 1..Len(compatible_frameworks) :
                       compatible_frameworks[j] \in supported
             ELSE compat_loop_first_only(target, supported, i + 1)

\* mutant of compat_loop: the entry's key, not a member of its list, must be
\* supported
RECURSIVE compat_loop_key_supported(_, _, _)
compat_loop_key_supported(target, supported, i) ==
    IF i > Len(FRAMEWORK_COMPATIBILITY) THEN FALSE
    ELSE IF InList(target, FRAMEWORK_COMPATIBILITY[i].compatible)
            /\ FRAMEWORK_COMPATIBILITY[i].key \in supported
         THEN TRUE
         ELSE compat_loop_key_supported(target, supported, i + 1)

\* mutant of compat_loop: only the entry keyed by the target itself is tried
RECURSIVE compat_loop_own_row(_, _, _)
compat_loop_own_row(target, supported, i) ==
    IF i > Len(FRAMEWORK_COMPATIBILITY) THEN FALSE
    ELSE LET compatible_frameworks == FRAMEWORK_COMPATIBILITY[i].compatible
         IN  IF FRAMEWORK_COMPATIBILITY[i].key = target
                /\ \E j \in 1..Len(compatible_frameworks) :
                       compatible_frameworks[j] \in supported
             THEN TRUE
             ELSE compat_loop_own_row(target, supported, i + 1)

\* mutant of compat_loop: an entry is also tried when its key, normalized, is
\* the target
RECURSIVE compat_loop_key_target(_, _, _)
compat_loop_key_target(target, supported, i) ==
    IF i > Len(FRAMEWORK_COMPATIBILITY) THEN FALSE
    ELSE LET compatible_frameworks == FRAMEWORK_COMPATIBILITY[i].compatible
         IN  IF ( \/ InList(target, compatible_frameworks)
                  \/ normalize_framework(FRAMEWORK_COMPATIBILITY[i].key) = target )
                /\ \E j \in 1..Len(compatible_frameworks) :
                       compatible_frameworks[j] \in supported
             THEN TRUE
             ELSE compat_loop_key_target(target, supported, i + 1)

\* the `for framework, compatible_frameworks in ...items()` loop of
\* _is_framework_compatible, from entry i on; `target` is already normalized
RECURSIVE compat_loop(_, _, _)
compat_loop(target, supported, i) ==
    IF i > Len(FRAMEWORK_COMPATIBILITY) THEN FALSE
    ELSE LET compatible_frameworks == FRAMEWORK_COMPATIBILITY[i].compatible
         IN  IF InList(target, compatible_frameworks)
                /\ \E j \in 1..Len(compatible_frameworks) :
                       compatible_frameworks[j] \in supported
             THEN TRUE
             ELSE compat_loop(target, supported, i + 1)

\* mutant of is_framework_compatible: the direct match only
is_framework_compatible_direct_only(target, supported) ==
    normalize_framework(target) \in supported

\* NuGetAPI._is_framework_compatible
is_framework_compatible(target, supported) ==
    LET t == normalize_framework(target)
    IN  IF t \in supported THEN TRUE
        ELSE compat_loop(t, supported, 1)

\* FRAMEWORK_COMPATIBILITY[k] for a key k of the dict
compatible_list(k) ==
    FRAMEWORK_COMPATIBILITY[
        CHOOSE i \in 1..Len(FRAMEWORK_COMPATIBILITY) :
            FRAMEWORK_COMPATIBILITY[i].key = k].compatible

\* the .NET Framework lineage net20 ... net48 (the members of the longest list)
Lineage == {UpTo48[i] : i \in 1..Len(UpTo48)}

-----------------------------------------------------------------------------
(* packaging.version.Version on the strings the registry can hold here:    *)
(* digits, '.' and letters that belong to no pre/post/dev keyword.         *)

Digits == <<"0","1","2","3","4","5","6","7","8","9">>

IsDigit(c) == \E i \in 1..Len(Digits) : Digits[i] = c

DigitValue(c) == (CHOOSE i \in 1..Len(Digits) : Digits[i] = c) - 1

\* str.split(sep) for a one-character sep
RECURSIVE Split(_, _)
Split(s, sep) ==
    IF \E i \in 1..Len(s) : s[i] = sep
    THEN LET i == CHOOSE j \in 1..Len(s) :
                      s[j] = sep /\ \A k \in 1..(j - 1) : s[k] # sep
         IN  <<SubSeq(s, 1, i - 1)>> \o Split(SubSeq(s, i + 1, Len(s)), sep)
    ELSE <<s>>

\* int(s) for a non-empty digit string
RECURSIVE ParseInt(_)
ParseInt(s) ==
    IF Len(s) = 1 THEN DigitValue(s[1])
    ELSE 10 * ParseInt(SubSeq(s, 1, Len(s) - 1)) + DigitValue(s[Len(s)])

\* the release segment \d+(\.\d+)* of packaging's VERSION_PATTERN
IsRelease(s) ==
    \A i \in 1..Len(Split(s, ".")) :
        LET part == Split(s, ".")[i]
        IN  part # <<>> /\ \A j \in 1..Len(part) : IsDigit(part[j])

\* trailing zeros dropped from a release tuple, as Version's comparison key does
RECURSIVE StripTrailingZeros(_)
StripTrailingZeros(release) ==
    IF release # <<>> /\ release[Len(release)] = 0
    THEN StripTrailingZeros(SubSeq(release, 1, Len(release) - 1))
    ELSE release

\* Version(version): "TypeError" for None, "InvalidVersion" for a string that
\* does not parse, and otherwise "ok" with the comparison key of the version
Version(version) ==
    IF version = None THEN [raised |-> "TypeError", key |-> <<>>]
    ELSE IF ~IsRelease(version) THEN [raised |-> "InvalidVersion", key |-> <<>>]
    ELSE [raised |-> "ok",
          key |-> StripTrailingZeros(
                      [i \in 1..Len(Split(version, ".")) |->
                          ParseInt(Split(version, ".")[i])])]

\* a < b on comparison keys: Python's tuple order
RECURSIVE KeyLess(_, _)
KeyLess(a, b) ==
    IF b = <<>> THEN FALSE
    ELSE IF a = <<>> THEN TRUE
    ELSE IF Head(a) # Head(b) THEN Head(a) < Head(b)
    ELSE KeyLess(Tail(a), Tail(b))

\* one element placed into a list already sorted descending, behind every
\* element whose key is not smaller (equal keys keep their arrival order)
RECURSIVE insert_desc(_, _)
insert_desc(sorted, p) ==
    IF sorted = <<>> THEN <<p>>
    ELSE IF KeyLess(Head(sorted).key, p.key) THEN <<p>> \o sorted
    ELSE <<Head(sorted)>> \o insert_desc(Tail(sorted), p)

RECURSIVE sort_pairs(_, _)
sort_pairs(pairs, n) ==
    IF n = 0 THEN <<>> ELSE insert_desc(sort_pairs(pairs, n - 1), pairs[n])

\* mutant of sort_reverse: reverse=True forgotten, the order is ascending
sort_ascending(items, keys) ==
    LET pairs == [i \in 1..Len(items) |-> [item |-> items[i], key |-> keys[i]]]
        sorted == sort_pairs(pairs, Len(pairs))
    IN  [i \in 1..Len(sorted) |-> sorted[Len(sorted) + 1 - i].item]

\* list.sort(key=..., reverse=True): the stable descending order of `items`
\* under `keys` (keys[i] is the key computed for items[i])
sort_reverse(items, keys) ==
    LET pairs == [i \in 1..Len(items) |-> [item |-> items[i], key |-> keys[i]]]
        sorted == sort_pairs(pairs, Len(pairs))
    IN  [i \in 1..Len(sorted) |-> sorted[i].item]

-----------------------------------------------------------------------------
(* NuGetAPI.get_compatible_versions.                                       *)

\* NuGetAPI._get_supported_frameworks; a group is its targetFramework string,
\* "" when the field is absent
get_supported_frameworks(dependency_groups) ==
    { normalize_framework(dependency_groups[i]) :
        i \in {j \in 1..Len(dependency_groups) : dependency_groups[j] # <<>>} }

\* mutant of scan_catalog: InvalidVersion is not caught inside the loop and
\* ends it like any other exception
RECURSIVE scan_catalog_invalid_aborts(_, _, _, _)
scan_catalog_invalid_aborts(cat, target_framework, i, acc) ==
    IF i > Len(cat) THEN acc
    ELSE LET version == cat[i].version
             parsed == Version(version)
             supported_frameworks ==
                 get_supported_frameworks(cat[i].dependencyGroups)
             version_info == [version |-> version,
                              supported_frameworks |-> supported_frameworks]
         IN  IF parsed.raised # "ok"
             THEN [acc EXCEPT !.raised = parsed.raised]
             ELSE IF is_framework_compatible(target_framework, supported_frameworks)
             THEN scan_catalog_invalid_aborts(cat, target_framework, i + 1,
                      [acc EXCEPT
                          !.compatible_versions = Append(@, version),
                          !.version_details = Append(@, version_info)])
             ELSE scan_catalog_invalid_aborts(cat, target_framework, i + 1, acc)

\* the record loop of get_compatible_versions over the catalog entries from
\* index i on (the pages of the response taken in order): acc holds
\* compatible_versions and version_details so far; a raised exception other
\* than InvalidVersion leaves the loop.  version_info keeps the fields the
\* function computes; published and downloads are copied from the entry
\* unread and are left out
RECURSIVE scan_catalog(_, _, _, _)
scan_catalog(cat, target_framework, i, acc) ==
    IF i > Len(cat) THEN acc
    ELSE LET version_data == cat[i]
             version == version_data.version
             parsed == Version(version)
             supported_frameworks ==
                 get_supported_frameworks(version_data.dependencyGroups)
             version_info == [version |-> version,
                              supported_frameworks |-> supported_frameworks]
         IN  IF parsed.raised = "InvalidVersion"
             THEN scan_catalog(cat, target_framework, i + 1, acc)
             ELSE IF parsed.raised # "ok"
             THEN [acc EXCEPT !.raised = parsed.raised]
             ELSE IF is_framework_compatible(target_framework, supported_frameworks)
             THEN scan_catalog(cat, target_framework, i + 1,
                      [acc EXCEPT
                          !.compatible_versions = Append(@, version),
                          !.version_details = Append(@, version_info)])
             ELSE scan_catalog(cat, target_framework, i + 1, acc)

\* mutant of get_compatible_versions: a failed fetch is swallowed and answered
\* with an empty success envelope
get_compatible_versions_swallow(package_id, target_framework, cat, fetch) ==
    LET target == normalize_framework(target_framework)
        scanned == scan_catalog(IF fetch = "ok" THEN cat ELSE <<>>, target, 1,
                       [raised |-> "ok",
                        compatible_versions |-> <<>>,
                        version_details |-> <<>>])
        compatible_versions ==
            sort_reverse(scanned.compatible_versions,
                [i \in 1..Len(scanned.compatible_versions) |->
                    Version(scanned.compatible_versions[i]).key])
        version_details ==
            sort_reverse(scanned.version_details,
                [i \in 1..Len(scanned.version_details) |->
                    Version(scanned.version_details[i].version).key])
    IN  IF scanned.raised # "ok"
        THEN [status |-> "error",
              message |-> <<"Unexpected error: ", scanned.raised>>]
        ELSE [status |-> "success",
              package_id |-> package_id,
              target_framework |-> target,
              compatible_versions |-> compatible_versions,
              latest_compatible |->
                  IF compatible_versions # <<>> THEN compatible_versions[1]
                  ELSE None,
              version_details |-> version_details]

\* mutant of get_compatible_versions: version_details is left in catalog
\* order, only compatible_versions is sorted
get_compatible_versions_details_unsorted(package_id, target_framework, cat, fetch) ==
    LET target == normalize_framework(target_framework)
        scanned == scan_catalog(cat, target, 1,
                       [raised |-> "ok",
                        compatible_versions |-> <<>>,
                        version_details |-> <<>>])
        compatible_versions ==
            sort_reverse(scanned.compatible_versions,
                [i \in 1..Len(scanned.compatible_versions) |->
                    Version(scanned.compatible_versions[i]).key])
    IN  IF fetch # "ok"
        THEN [status |-> "error",
              message |-> <<"Failed to fetch compatible versions: ", fetch>>]
        ELSE IF scanned.raised # "ok"
        THEN [status |-> "error",
              message |-> <<"Unexpected error: ", scanned.raised>>]
        ELSE [status |-> "success",
              package_id |-> package_id,
              target_framework |-> target,
              compatible_versions |-> compatible_versions,
              latest_compatible |->
                  IF compatible_versions # <<>> THEN compatible_versions[1]
                  ELSE None,
              version_details |-> scanned.version_details]

\* NuGetAPI.get_compatible_versions(package_id, target_framework) against the
\* catalog `cat`; `fetch` is what session.get / raise_for_status did.  The
\* parameter current_version is never read by the function
get_compatible_versions(package_id, target_framework, cat, fetch) ==
    LET target == normalize_framework(target_framework)
        scanned == scan_catalog(cat, target, 1,
                       [raised |-> "ok",
                        compatible_versions |-> <<>>,
                        version_details |-> <<>>])
        compatible_versions ==
            sort_reverse(scanned.compatible_versions,
                [i \in 1..Len(scanned.compatible_versions) |->
                    Version(scanned.compatible_versions[i]).key])
        version_details ==
            sort_reverse(scanned.version_details,
                [i \in 1..Len(scanned.version_details) |->
                    Version(scanned.version_details[i].version).key])
    IN  IF fetch # "ok"
        THEN [status |-> "error",
              message |-> <<"Failed to fetch compatible versions: ", fetch>>]
        ELSE IF scanned.raised # "ok"
        THEN [status |-> "error",
              message |-> <<"Unexpected error: ", scanned.raised>>]
        ELSE [status |-> "success",
              package_id |-> package_id,
              target_framework |-> target,
              compatible_versions |-> compatible_versions,
              latest_compatible |->
                  IF compatible_versions # <<>> THEN compatible_versions[1]
                  ELSE None,
              version_details |-> version_details]

-----------------------------------------------------------------------------
(* GoogleSearchAPI: Java runtime table and runtime-aware extraction.       *)

java8  == Java(<<"8">>)
java17 == Java(<<"1","7">>)

\* the list literal of java21: ["java20", "java19", ..., "java11", "java8"]
Before21 == <<Java(<<"2","0">>), Java(<<"1","9">>), Java(<<"1","8">>), java17,
              Java(<<"1","6">>), Java(<<"1","5">>), Java(<<"1","4">>),
              Java(<<"1","3">>), Java(<<"1","2">>), Java(<<"1","1">>), java8>>

\* GoogleSearchAPI.JAVA_RUNTIME_COMPATIBILITY, in the dict's insertion order:
\* java21, then java20 ... java11, the list of each being the tail of java21's
\* list behind its own key, then "java8": ["java8"]
JAVA_RUNTIME_COMPATIBILITY ==
    << [key |-> Java(<<"2","1">>), compatible |-> Before21] >>
    \o [i \in 1..(Len(Before21) - 1) |->
           [key |-> Before21[i],
            compatible |-> SubSeq(Before21, i + 1, Len(Before21))]]
    \o << [key |-> java8, compatible |-> <<java8>>] >>

\* JAVA_RUNTIME_COMPATIBILITY.keys()
JavaKeys ==
    {JAVA_RUNTIME_COMPATIBILITY[i].key : i \in 1..Len(JAVA_RUNTIME_COMPATIBILITY)}

\* JAVA_RUNTIME_COMPATIBILITY.get(k, [])
java_compatible_list(k) ==
    IF k \in JavaKeys
    THEN JAVA_RUNTIME_COMPATIBILITY[
             CHOOSE i \in 1..Len(JAVA_RUNTIME_COMPATIBILITY) :
                 JAVA_RUNTIME_COMPATIBILITY[i].key = k].compatible
    ELSE <<>>

\* the characters of the model in code-point order
CodePointOrder == <<" ", "-", ".">> \o Digits \o <<":">> \o UpperChars \o LowerChars

Ord(c) == CHOOSE i \in 1..Len(CodePointOrder) : CodePointOrder[i] = c

\* a < b on str
RECURSIVE StrLess(_, _)
StrLess(a, b) ==
    IF b = <<>> THEN FALSE
    ELSE IF a = <<>> THEN TRUE
    ELSE IF Head(a) # Head(b) THEN Ord(Head(a)) < Ord(Head(b))
    ELSE StrLess(Tail(a), Tail(b))

\* sorted(list(S)) for a set S of str
RECURSIVE sorted_strings(_)
sorted_strings(S) ==
    IF S = {} THEN <<>>
    ELSE LET least == CHOOSE x \in S : \A y \in S \ {x} : StrLess(x, y)
         IN  <<least>> \o sorted_strings(S \ {least})

W_compatible == <<"c","o","m","p","a","t","i","b","l","e">>
W_supported  == <<"s","u","p","p","o","r","t","e","d">>
W_works_with == <<"w","o","r","k","s"," ","w","i","t","h">>
W_runs_on    == <<"r","u","n","s"," ","o","n">>
W_recommend  == <<"r","e","c","o","m","m","e","n","d">>
W_suggest    == <<"s","u","g","g","e","s","t">>

\* any(indicator in text for indicator in [...])
has_indicator(text) ==
    \/ Contains(text, W_compatible)
    \/ Contains(text, W_supported)
    \/ Contains(text, W_works_with)
    \/ Contains(text, W_runs_on)

\* f"{result['title']} {result['snippet']}".lower()
result_text(r) == Lower(r.title \o <<" ">> \o r.snippet)

\* the `for result in results` loop of _extract_java_compatibility_info over
\* the results from index i on, info being the dict built so far
RECURSIVE java_scan(_, _, _, _, _)
java_scan(results, package_name, target_runtime, i, info) ==
    IF i > Len(results) THEN info
    ELSE LET text == result_text(results[i])
             entry == [source |-> results[i].link, text |-> results[i].snippet]
             runtimes == {k \in JavaKeys : Contains(text, k)}
             evident == Contains(text, Lower(target_runtime)) /\ has_indicator(text)
             advised == Contains(text, W_recommend) \/ Contains(text, W_suggest)
         IN  IF Contains(text, Lower(package_name))
             THEN java_scan(results, package_name, target_runtime, i + 1,
                      [is_compatible |-> info.is_compatible \/ evident,
                       evidence |-> IF evident THEN Append(info.evidence, entry)
                                    ELSE info.evidence,
                       recommendations |->
                           IF advised THEN Append(info.recommendations, entry)
                           ELSE info.recommendations,
                       supported_runtimes |-> info.supported_runtimes \cup runtimes])
             ELSE java_scan(results, package_name, target_runtime, i + 1, info)

\* mutant of runtime_chain: the lookup is made the other way round, the
\* target looked for in the list of a discovered runtime
runtime_chain_reversed(target_runtime, supported_runtimes) ==
    \E runtime \in supported_runtimes :
        InList(Lower(target_runtime), java_compatible_list(runtime))

\* the runtime compatibility chain check: some discovered runtime is in the
\* table's list of the lowercased target
runtime_chain(target_runtime, supported_runtimes) ==
    \E runtime \in supported_runtimes :
        InList(runtime, java_compatible_list(Lower(target_runtime)))

\* GoogleSearchAPI._extract_java_compatibility_info
extract_java_compatibility_info(results, package_name, target_runtime) ==
    LET info == java_scan(results, package_name, target_runtime, 1,
                    [is_compatible |-> FALSE, evidence |-> <<>>,
                     recommendations |-> <<>>, supported_runtimes |-> {}])
    IN  [is_compatible |->
             IF ~info.is_compatible
             THEN runtime_chain(target_runtime, info.supported_runtimes)
             ELSE TRUE,
         evidence |-> info.evidence,
         recommendations |-> info.recommendations,
         supported_runtimes |-> sorted_strings(info.supported_runtimes)]

-----------------------------------------------------------------------------
(* NuGetAPI.get_latest_compatible_version.                                 *)

\* s.lower().replace('.', '').replace('-', '') of _find_compatible_versions
norm_plain(s) == Remove(Remove(Lower(s), "."), "-")

\* the `for group in groups` loop of _find_compatible_versions: some group's
\* framework holds the target or is held by it (a group without the field
\* counts as "")
group_matches(groups, norm_target) ==
    \E g \in 1..Len(groups) :
        LET norm_api_framework == norm_plain(groups[g])
        IN  \/ Contains(norm_api_framework, norm_target)
            \/ Contains(norm_target, norm_api_framework)

\* NuGetAPI._find_compatible_versions: the list `compatible` is built from the
\* catalog entries with a matching group, and the function ends without a
\* return statement, so the caller receives None
find_compatible_versions(metadata, target_framework) ==
    LET norm_target == norm_plain(target_framework)
        matching == SelectSeq(metadata,
                        LAMBDA e : group_matches(e.dependencyGroups, norm_target))
        compatible == [k \in 1..Len(matching) |-> matching[k].version]
    IN  None    \* `compatible` is built and dropped

\* NuGetAPI.get_latest_compatible_version(package_id, target_framework);
\* `versions` is the flat-container list, `metadata` the registration
\* catalog, fetch_versions and fetch_metadata what the two requests.get /
\* raise_for_status calls did.  Every exception is caught and answered with
\* an error envelope holding str(e)
get_latest_compatible_version(package_id, target_framework, versions, metadata, fetch_versions, fetch_metadata) ==
    LET compatible_versions == find_compatible_versions(metadata, target_framework)
        parsed == [i \in 1..Len(compatible_versions) |->
                      Version(compatible_versions[i])]
        sorted == sort_reverse(compatible_versions,
                      [i \in 1..Len(compatible_versions) |-> parsed[i].key])
    IN  IF fetch_versions # "ok"
        THEN [status |-> "error", message |-> <<fetch_versions>>]
        ELSE IF versions = <<>>
        THEN [status |-> "error", message |-> <<"No versions found.">>]
        ELSE IF fetch_metadata # "ok"
        THEN [status |-> "error", message |-> <<fetch_metadata>>]
        ELSE IF compatible_versions = None \/ compatible_versions = <<>>
        THEN [status |-> "error", message |-> <<"No compatible versions found.">>]
        ELSE IF \E i \in 1..Len(parsed) : parsed[i].raised # "ok"
        THEN [status |-> "error",
              message |-> <<parsed[CHOOSE i \in 1..Len(parsed) :
                                parsed[i].raised # "ok"].raised>>]
        ELSE [status |-> "success",
              package_id |-> package_id,
              target_framework |-> target_framework,
              latest_compatible |-> sorted[1],
              compatible_versions |-> sorted]

-----------------------------------------------------------------------------
(* NuGetAPI.get_package_versions.                                          *)

\* the key a str has under Python's `<`: its code points in order
str_key(v) == [j \in 1..Len(v) |-> Ord(v[j])]

\* NuGetAPI.get_package_versions: every catalogEntry gives one record, its
\* "version" being None when the field is missing; the records are sorted
\* descending on that value as a str.  Comparing None raises TypeError, which
\* sorted() does whenever it compares at all (two records or more); only
\* RequestException is caught, so the TypeError leaves the method.
get_package_versions(package_id, cat, fetch) ==
    IF fetch # "ok"
    THEN [status |-> "error",
          message |-> <<"Failed to fetch versions: ", fetch>>]
    ELSE LET versions == [i \in 1..Len(cat) |-> [version |-> cat[i].version]]
         IN  IF Len(versions) >= 2
                /\ \E i \in 1..Len(versions) : versions[i].version = None
             THEN [status |-> "raised", exception |-> "TypeError"]
             ELSE [status |-> "success",
                   package_id |-> package_id,
                   versions |->
                       sort_reverse(versions,
                           [i \in 1..Len(versions) |->
                               IF versions[i].version = None THEN <<>>
                               ELSE str_key(versions[i].version)])]

-----------------------------------------------------------------------------
(* GoogleSearchAPI: evidence, vulnerability and latest-version extraction  *)
(* of the generic check.                                                   *)

\* mutant of compat_scan: the target is not looked for in the text
RECURSIVE compat_scan_ignores_target(_, _, _, _, _)
compat_scan_ignores_target(results, package_name, target_framework, i, info) ==
    IF i > Len(results) THEN info
    ELSE LET text == result_text(results[i])
             entry == [source |-> results[i].link, text |-> results[i].snippet]
             mentioned == Contains(text, Lower(package_name))
             evident == mentioned /\ has_indicator(text)
             advised == mentioned /\ (Contains(text, W_recommend)
                                      \/ Contains(text, W_suggest))
         IN  compat_scan_ignores_target(results, package_name, target_framework, i + 1,
                 [is_compatible |-> info.is_compatible \/ evident,
                  evidence |-> IF evident THEN Append(info.evidence, entry)
                               ELSE info.evidence,
                  recommendations |->
                      IF advised THEN Append(info.recommendations, entry)
                      ELSE info.recommendations])

\* the `for result in results` loop of _extract_compatibility_info over the
\* results from index i on, info being the dict built so far
RECURSIVE compat_scan(_, _, _, _, _)
compat_scan(results, package_name, target_framework, i, info) ==
    IF i > Len(results) THEN info
    ELSE LET text == result_text(results[i])
             entry == [source |-> results[i].link, text |-> results[i].snippet]
             mentioned == /\ Contains(text, Lower(package_name))
                          /\ Contains(text, Lower(target_framework))
             evident == mentioned /\ has_indicator(text)
             advised == mentioned /\ (Contains(text, W_recommend)
                                      \/ Contains(text, W_suggest))
         IN  compat_scan(results, package_name, target_framework, i + 1,
                 [is_compatible |-> info.is_compatible \/ evident,
                  evidence |-> IF evident THEN Append(info.evidence, entry)
                               ELSE info.evidence,
                  recommendations |->
                      IF advised THEN Append(info.recommendations, entry)
                      ELSE info.recommendations])

\* GoogleSearchAPI._extract_compatibility_info
extract_compatibility_info(results, package_name, target_framework) ==
    compat_scan(results, package_name, target_framework, 1,
                [is_compatible |-> FALSE, evidence |-> <<>>,
                 recommendations |-> <<>>])

\* f"{result['title']} {result['snippet']}", case kept
raw_text(r) == r.title \o <<" ">> \o r.snippet

\* how many digits stand at text[i], text[i+1], ..., counted up to `most`:
\* what a greedy \d{..,most} consumes at i
RECURSIVE digit_run(_, _, _)
digit_run(text, i, most) ==
    IF most = 0 \/ i > Len(text) \/ ~IsDigit(text[i]) THEN 0
    ELSE 1 + digit_run(text, i + 1, most - 1)

\* mutant of cve_match: the sequence number is cut after four digits
cve_match_four_digits(text, i) ==
    IF /\ i + 8 <= Len(text)
       /\ SubSeq(text, i, i + 3) = <<"C","V","E","-">>
       /\ digit_run(text, i + 4, 4) = 4
       /\ text[i + 8] = "-"
       /\ digit_run(text, i + 9, 4) = 4
    THEN 13 ELSE 0

\* the length of the match of r'CVE-\d{4}-\d{4,7}' that starts at text[i],
\* 0 when there is none
cve_match(text, i) ==
    IF /\ i + 8 <= Len(text)
       /\ SubSeq(text, i, i + 3) = <<"C","V","E","-">>
       /\ digit_run(text, i + 4, 4) = 4
       /\ text[i + 8] = "-"
       /\ digit_run(text, i + 9, 7) >= 4
    THEN 9 + digit_run(text, i + 9, 7) ELSE 0

\* the length of the match of r'\d+\.\d+\.\d+' that starts at text[i], 0 when
\* there is none; each \d+ takes its whole digit run (giving digits back
\* cannot help, the next character would be a digit and no '.')
version_match(text, i) ==
    LET d1 == digit_run(text, i, Len(text))
        d2 == digit_run(text, i + d1 + 1, Len(text))
        d3 == digit_run(text, i + d1 + d2 + 2, Len(text))
    IN  IF /\ d1 >= 1
           /\ i + d1 <= Len(text) /\ text[i + d1] = "."
           /\ d2 >= 1
           /\ i + d1 + d2 + 1 <= Len(text) /\ text[i + d1 + d2 + 1] = "."
           /\ d3 >= 1
        THEN d1 + d2 + d3 + 2 ELSE 0

\* the length of the match of r'\d+\.\d+(?!\.)' that starts at text[i], 0 when
\* there is none.  The first \d+ must end at a '.', so it takes its whole
\* run; the second takes its whole run unless a '.' follows, and then gives
\* one digit back, after which a digit follows and the lookahead holds
short_version_match(text, i) ==
    LET d1 == digit_run(text, i, Len(text))
        d2 == digit_run(text, i + d1 + 1, Len(text))
        behind == i + d1 + d2 + 1
    IN  IF d1 >= 1 /\ i + d1 <= Len(text) /\ text[i + d1] = "." /\ d2 >= 1
        THEN IF behind > Len(text) \/ text[behind] # "." THEN d1 + d2 + 1
             ELSE IF d2 >= 2 THEN d1 + d2
             ELSE 0
        ELSE 0

\* the patterns handed to re.findall
RE_CVE     == "CVE-\\d{4}-\\d{4,7}"
RE_VERSION == "\\d+\\.\\d+\\.\\d+"
RE_SHORT_VERSION == "\\d+\\.\\d+(?!\\.)"

\* re.findall(pattern, text) from text[i] on: the leftmost match, then the
\* matches of the text behind it
RECURSIVE findall(_, _, _)
findall(pattern, text, i) ==
    IF i > Len(text) THEN <<>>
    ELSE LET n == IF pattern = RE_CVE THEN cve_match(text, i)
                  ELSE IF pattern = RE_VERSION THEN version_match(text, i)
                  ELSE short_version_match(text, i)
         IN  IF n > 0
             THEN <<SubSeq(text, i, i + n - 1)>> \o findall(pattern, text, i + n)
             ELSE findall(pattern, text, i + 1)

S_unknown == <<"u","n","k","n","o","w","n">>

\* mutant of extract_severity: the keywords are looked for in the text as
\* written, not in its lowercased form
extract_severity_case_kept(text) ==
    IF Contains(text, <<"c","r","i","t","i","c","a","l">>) THEN <<"c","r","i","t","i","c","a","l">>
    ELSE IF Contains(text, <<"h","i","g","h">>) THEN <<"h","i","g","h">>
    ELSE IF Contains(text, <<"m","e","d","i","u","m">>) THEN <<"m","e","d","i","u","m">>
    ELSE IF Contains(text, <<"l","o","w">>) THEN <<"l","o","w">>
    ELSE S_unknown

\* GoogleSearchAPI._extract_severity
extract_severity(text) ==
    LET t == Lower(text)
    IN  IF Contains(t, <<"c","r","i","t","i","c","a","l">>) THEN <<"c","r","i","t","i","c","a","l">>
        ELSE IF Contains(t, <<"h","i","g","h">>) THEN <<"h","i","g","h">>
        ELSE IF Contains(t, <<"m","e","d","i","u","m">>) THEN <<"m","e","d","i","u","m">>
        ELSE IF Contains(t, <<"l","o","w">>) THEN <<"l","o","w">>
        ELSE S_unknown

\* the `for result in results` loop of _extract_vulnerability_info over the
\* results from index i on: the records appended, in order
RECURSIVE vulnerability_scan(_, _)
vulnerability_scan(results, i) ==
    IF i > Len(results) THEN <<>>
    ELSE LET text == raw_text(results[i])
             cve_matches == findall(RE_CVE, text, 1)
         IN  [k \in 1..Len(cve_matches) |->
                 [id |-> cve_matches[k],
                  source |-> results[i].link,
                  description |-> results[i].snippet,
                  severity |-> extract_severity(text)]]
             \o vulnerability_scan(results, i + 1)

\* GoogleSearchAPI._extract_vulnerability_info
extract_vulnerability_info(results, package_name, version) ==
    LET vulnerabilities == vulnerability_scan(results, 1)
    IN  [has_vulnerabilities |-> Len(vulnerabilities) > 0,
         vulnerabilities |-> vulnerabilities]

\* mutant of version_tuple: the versions are compared as str
version_tuple_as_str(x) == str_key(x)

\* tuple(map(int, x.split('.')))
version_tuple(x) == [i \in 1..Len(Split(x, ".")) |-> ParseInt(Split(x, ".")[i])]

\* the set `versions` of _extract_latest_version
versions_found(results) ==
    UNION { {findall(RE_VERSION, raw_text(results[i]), 1)[k] :
                k \in 1..Len(findall(RE_VERSION, raw_text(results[i]), 1))} :
            i \in 1..Len(results) }

\* GoogleSearchAPI._extract_latest_version: the values it can return.  max()
\* keeps the first greatest element it meets, and the order in which a set of
\* str is walked differs from run to run, so any element with the greatest
\* key can come back when several share it ("1.0.0" and "01.0.0")
extract_latest_version(results, package_name) ==
    LET versions == versions_found(results)
    IN  IF versions # {}
        THEN {v \in versions :
                 \A w \in versions : ~KeyLess(version_tuple(v), version_tuple(w))}
        ELSE {S_unknown}

-----------------------------------------------------------------------------
(* GoogleSearchAPI: search, extract_versions and the three checks; the     *)
(* search fallback of tools.py.                                            *)

\* mutant of search: num_results is ignored and the service's maximum of ten
\* results is asked for
search_ignores_num_results(query, num_results, outcome) ==
    [request |-> [query |-> query, num |-> 10],
     response |->
         IF outcome.kind = "ok"
         THEN [status |-> "success", results |-> outcome.items]
         ELSE [status |-> "error", message |-> "Error performing search"]]

\* GoogleSearchAPI.search: the request sent to the service (num_results
\* brought into 1..10) and the dict returned.  `outcome` is what the service
\* does: it answers with items, raises HttpError, or raises something else;
\* both exceptions are caught and turned into an error dict.
search(query, num_results, outcome) ==
    [request |-> [query |-> query,
                  num |-> IF num_results < 1 THEN 1
                          ELSE IF num_results > 10 THEN 10 ELSE num_results],
     response |->
         IF outcome.kind = "ok"
         THEN [status |-> "success", results |-> outcome.items]
         ELSE IF outcome.kind = "HttpError"
         THEN [status |-> "error", message |-> "Google Search API error"]
         ELSE [status |-> "error", message |-> "Error performing search"]]

\* dict.get("results", []) on what search returned
get_results(response) ==
    IF response.status = "success" THEN response.results ELSE <<>>

\* mutant of extract_versions: every result is searched for versions, whether
\* or not it mentions the package and the target
extract_versions_unfiltered(search_results, package_name, target_framework) ==
    LET tokens(i, pattern) ==
            LET found == findall(pattern, result_text(search_results[i]) \o <<>>, 1)
            IN  {found[k] : k \in 1..Len(found)}
        versions == UNION {tokens(i, RE_VERSION) \cup tokens(i, RE_SHORT_VERSION) :
                              i \in 1..Len(search_results)}
        ascending == sorted_strings(versions)
    IN  [k \in 1..Len(ascending) |-> ascending[Len(ascending) + 1 - k]]

\* GoogleSearchAPI.extract_versions
extract_versions(search_results, package_name, target_framework) ==
    LET mentioning ==
            {i \in 1..Len(search_results) :
                /\ Contains(result_text(search_results[i]), Lower(package_name))
                /\ Contains(result_text(search_results[i]), Lower(target_framework))}
        tokens(i, pattern) ==
            LET found == findall(pattern, result_text(search_results[i]) \o <<>>, 1)
            IN  {found[k] : k \in 1..Len(found)}
        versions == UNION {tokens(i, RE_VERSION) \cup tokens(i, RE_SHORT_VERSION) :
                              i \in mentioning}
        ascending == sorted_strings(versions)
    IN  [k \in 1..Len(ascending) |-> ascending[Len(ascending) + 1 - k]]

\* GoogleSearchAPI.check_package_compatibility, outcomes[k] being what the
\* service does on the k-th search: the requests sent, in order, and the
\* envelopes that can be returned (one per value the latest-version selection
\* can return).  The extraction functions raise nothing on the dicts search
\* builds, so the `except Exception` branch is never taken.
check_package_compatibility(package_name, current_version, target_framework, outcomes) ==
    LET compatibility_query == package_name \o <<" ">> \o target_framework
                               \o <<" ","c","o","m","p","a","t","i","b","i","l","i","t","y"," ">> \o current_version
        compatibility_results == search(compatibility_query, 5, outcomes[1])
        vulnerability_query == package_name \o <<" ">> \o current_version
                               \o <<" ","v","u","l","n","e","r","a","b","i","l","i","t","i","e","s"," ","C","V","E">>
        vulnerability_results == search(vulnerability_query, 5, outcomes[2])
        compatibility_info ==
            extract_compatibility_info(get_results(compatibility_results.response),
                                       package_name, target_framework)
        vulnerability_info ==
            extract_vulnerability_info(get_results(vulnerability_results.response),
                                       package_name, current_version)
        latest_version_query == package_name \o <<" ","l","a","t","e","s","t"," ","v","e","r","s","i","o","n">>
        latest_version_results == search(latest_version_query, 3, outcomes[3])
    IN  [requests |-> <<compatibility_results.request,
                        vulnerability_results.request,
                        latest_version_results.request>>,
         returns |->
             {[status |-> "success",
               package_name |-> package_name,
               current_version |-> current_version,
               target_framework |-> target_framework,
               compatibility |-> compatibility_info,
               vulnerabilities |-> vulnerability_info,
               latest_version |-> latest_version] :
              latest_version \in
                  extract_latest_version(get_results(latest_version_results.response),
                                         package_name)}]

\* GoogleSearchAPI.check_maven_compatibility and check_gradle_compatibility,
\* which differ in the word (build_tool) their queries end with only
check_java_compatibility(build_tool, group_id, artifact_id, current_version, target_runtime, outcomes) ==
    LET package == group_id \o <<":">> \o artifact_id
        compatibility_query == group_id \o <<" ">> \o artifact_id \o <<" ">>
                               \o target_runtime \o <<" ","c","o","m","p","a","t","i","b","i","l","i","t","y"," ">>
                               \o current_version \o <<" ">> \o build_tool
        compatibility_results == search(compatibility_query, 5, outcomes[1])
        vulnerability_query == group_id \o <<" ">> \o artifact_id \o <<" ">>
                               \o current_version \o <<" ","v","u","l","n","e","r","a","b","i","l","i","t","i","e","s"," ","C","V","E">>
        vulnerability_results == search(vulnerability_query, 5, outcomes[2])
        compatibility_info ==
            extract_java_compatibility_info(
                get_results(compatibility_results.response), package, target_runtime)
        vulnerability_info ==
            extract_vulnerability_info(get_results(vulnerability_results.response),
                                       package, current_version)
        latest_version_query == group_id \o <<" ">> \o artifact_id \o <<" ","l","a","t","e","s","t"," ","v","e","r","s","i","o","n">>
                                \o <<" ">> \o build_tool
        latest_version_results == search(latest_version_query, 3, outcomes[3])
    IN  [requests |-> <<compatibility_results.request,
                        vulnerability_results.request,
                        latest_version_results.request>>,
         returns |->
             {[status |-> "success",
               group_id |-> group_id,
               artifact_id |-> artifact_id,
               current_version |-> current_version,
               target_runtime |-> target_runtime,
               compatibility |-> compatibility_info,
               vulnerabilities |-> vulnerability_info,
               latest_version |-> latest_version] :
              latest_version \in
                  extract_latest_version(get_results(latest_version_results.response),
                                         package)}]

\* tools.get_compatible_versions_fallback: one search with the default
\* num_results, made without consulting the registry
get_compatible_versions_fallback(package_name, target_framework, outcome) ==
    LET search_query == package_name \o <<" ","c","o","m","p","a","t","i","b","l","e"," ","w","i","t","h"," ">> \o target_framework
                        \o <<" ","v","e","r","s","i","o","n"," ","c","o","m","p","a","t","i","b","i","l","i","t","y">>
        search_result == search(search_query, 5, outcome)
        versions == IF search_result.response.status = "success"
                    THEN extract_versions(search_result.response.results,
                                          package_name, target_framework)
                    ELSE <<>>
    IN  [requests |-> <<search_result.request>>,
         returns |->
             {IF versions # <<>>
              THEN [status |-> "success",
                    package_name |-> package_name,
                    target_framework |-> target_framework,
                    compatible_versions |-> versions,
                    latest_compatible |-> versions[1],
                    source |-> "google_search"]
              ELSE [status |-> "error",
                    message |-> "No compatible versions found",
                    source |-> "google_search"]}]

-----------------------------------------------------------------------------
(* callbacks.rate_limit_callback.                                          *)

RATE_LIMIT_SECS == 60
RPM_QUOTA == 10

\* rate_limit_callback run at clock reading `now` on the callback state
\* `state`: the state it leaves, and the seconds it slept before returning.
\* The rewrite of empty text parts touches the request only, never the state
rate_limit_callback(state, now) ==
    IF ~state.set
    THEN [state |-> [set |-> TRUE, timer_start |-> now, request_count |-> 1],
          slept |-> 0]
    ELSE LET request_count == state.request_count + 1
             elapsed_secs == now - state.timer_start
             delay == RATE_LIMIT_SECS - elapsed_secs + 1
         IN  IF request_count > RPM_QUOTA
             THEN [state |-> [set |-> TRUE, timer_start |-> now,
                              request_count |-> 1],
                   slept |-> IF delay > 0 THEN delay ELSE 0]
             ELSE [state |-> [state EXCEPT !.request_count = request_count],
                   slept |-> 0]

-----------------------------------------------------------------------------
(* Inputs of the pure-function specification SpecCompat.                   *)

\* raw spellings a caller may pass as `target`
RawTargets ==
    Lineage \cup {
        <<"N","E","T","4",".","8">>,      \* "NET4.8"   -> net48
        <<"n","e","t","-","4","5">>,      \* "net-45"   -> net45
        <<"4",".","8">>,                  \* "4.8"      -> net48
        netstandard2_0,                   \* -> netstandard20
        net6_0,                           \* -> net60
        Java(<<"1","7">>),            \* "java17"   -> netjava17
        <<>> }                            \* ""         -> net

\* normalized identifiers a supported set may hold
SupportedPool ==
    Lineage \cup { normalize_framework(netstandard2_0),
                   normalize_framework(net6_0),
                   normalize_framework(Java(<<"1","7">>)) }

\* largest supported set drawn
MaxSupported == 2

SupportedSets == {S \in SUBSET SupportedPool : Cardinality(S) <= MaxSupported}

-----------------------------------------------------------------------------
(* Values of the variables before the operation they belong to has run.    *)

NotReturned == [returned |-> FALSE, value |-> FALSE]
NoCall      == [made |-> FALSE, package_id |-> <<>>, target_framework |-> <<>>,
                fetch |-> "ok"]
NoResult    == [status |-> "not_called"]
NoInfo      == [returned |-> FALSE]

ResolverIdle == catalog = <<>> /\ call = NoCall /\ result = NoResult
JavaIdle     == jv_results = <<>> /\ jv_target = <<>> /\ jv_info = NoInfo
CompatIdle   == ic_target = <<>> /\ ic_supported = {} /\ ic_result = NotReturned
NormalizeIdle == nz_input = <<>> /\ nz_outputs = <<>>
HistoryIdle  == history = <<>>
RateIdle     == rl_state = [set |-> FALSE] /\ rl_now = 0

-----------------------------------------------------------------------------
(* SpecCompat: _is_framework_compatible applied to drawn arguments.        *)

InitCompat ==
    /\ ic_target \in RawTargets
    /\ ic_supported \in SupportedSets
    /\ ic_result = NotReturned
    /\ ResolverIdle
    /\ JavaIdle
    /\ NormalizeIdle
    /\ HistoryIdle
    /\ RateIdle

\* one call of NuGetAPI._is_framework_compatible(ic_target, ic_supported)
IsFrameworkCompatible ==
    /\ ~ic_result.returned
    /\ ic_result' = [returned |-> TRUE,
                     value |-> is_framework_compatible(ic_target, ic_supported)]
    /\ UNCHANGED <<ic_target, ic_supported, catalog, call, result,
                   jv_results, jv_target, jv_info,
                   nz_input, nz_outputs, history, rl_state, rl_now>>

NextCompat == IsFrameworkCompatible

SpecCompat == InitCompat /\ [][NextCompat]_vars

-----------------------------------------------------------------------------
(* Spec: get_compatible_versions called against a registry catalog.        *)

v1_0_0  == <<"1",".","0",".","0">>
v1_0    == <<"1",".","0">>
v2_0_0  == <<"2",".","0",".","0">>
v9_0_0  == <<"9",".","0",".","0">>
v10_0_0 == <<"1","0",".","0",".","0">>
v1_x    == <<"1",".","x">>

\* what a catalogEntry's "version" may be: well-formed strings, a string that
\* is no version, and None for an entry without the field
CatalogVersions == {v1_0_0, v1_0, v2_0_0, v9_0_0, v10_0_0, v1_x, None}

\* what a catalogEntry's "dependencyGroups" may be, each group given by its
\* targetFramework ("" when absent)
CatalogGroups == { <<>>,
                   <<net45>>,
                   <<netstandard2_0>>,
                   << <<>>, <<"N","e","t","4",".","8">> >> }

CatalogEntries == [version : CatalogVersions, dependencyGroups : CatalogGroups]

\* longest catalog drawn
MaxCatalog == 2

RECURSIVE SeqsUpTo(_, _)
SeqsUpTo(S, n) ==
    IF n = 0 THEN {<<>>}
    ELSE LET shorter == SeqsUpTo(S, n - 1)
         IN  shorter \cup {Append(q, x) : q \in shorter, x \in S}

Catalogs == SeqsUpTo(CatalogEntries, MaxCatalog)

\* the package asked for
PackageIds == {<<"p","k","g">>}

\* target spellings passed to get_compatible_versions
ResolverTargets == { net48,
                     <<"n","e","t","4",".","5">>,
                     netstandard2_0,
                     Java(<<"1","7">>) }

\* what the registry fetch can do: return the catalog, answer with an HTTP
\* error status (raise_for_status raises HTTPError), or fail in transport
FetchOutcomes == {"ok", "HTTPError 500", "ConnectionError"}

Init ==
    /\ catalog \in Catalogs
    /\ call = NoCall
    /\ result = NoResult
    /\ CompatIdle
    /\ JavaIdle
    /\ NormalizeIdle
    /\ HistoryIdle
    /\ RateIdle

\* one call of NuGetAPI.get_compatible_versions; calls are synchronous, one
\* at a time: the next one starts when the envelope has gone back to the caller
GetCompatibleVersions ==
    \E package_id \in PackageIds, target_framework \in ResolverTargets,
       fetch \in FetchOutcomes :
        /\ ~call.made
        /\ call' = [made |-> TRUE, package_id |-> package_id,
                    target_framework |-> target_framework, fetch |-> fetch]
        /\ result' = get_compatible_versions(package_id, target_framework,
                                             catalog, fetch)
        /\ UNCHANGED <<catalog, ic_target, ic_supported, ic_result,
                       jv_results, jv_target, jv_info,
                   nz_input, nz_outputs, history, rl_state, rl_now>>

\* the tool wrapper hands the envelope to its caller; the client keeps
\* nothing of the call
ReturnToCaller ==
    /\ call.made
    /\ call' = NoCall
    /\ result' = NoResult
    /\ UNCHANGED <<catalog, ic_target, ic_supported, ic_result,
                   jv_results, jv_target, jv_info,
                   nz_input, nz_outputs, history, rl_state, rl_now>>

Next == GetCompatibleVersions \/ ReturnToCaller

Spec == Init /\ [][Next]_vars

-----------------------------------------------------------------------------
(* SpecVersions: get_package_versions called against a registry catalog.   *)

\* one call of NuGetAPI.get_package_versions; `result` holds the envelope, or
\* the exception that left the method
GetPackageVersions ==
    \E package_id \in PackageIds, fetch \in FetchOutcomes :
        /\ ~call.made
        /\ call' = [made |-> TRUE, package_id |-> package_id,
                    target_framework |-> <<>>, fetch |-> fetch]
        /\ result' = get_package_versions(package_id, catalog, fetch)
        /\ UNCHANGED <<catalog, ic_target, ic_supported, ic_result,
                       jv_results, jv_target, jv_info,
                       nz_input, nz_outputs, history, rl_state, rl_now>>

NextVersions == GetPackageVersions \/ ReturnToCaller

SpecVersions == Init /\ [][NextVersions]_vars

-----------------------------------------------------------------------------
(* SpecLatest: get_latest_compatible_version called against a registry     *)
(* catalog.                                                                *)

\* one call of NuGetAPI.get_latest_compatible_version; the flat-container
\* index lists the versions of the catalog's entries
GetLatestCompatibleVersion ==
    \E package_id \in PackageIds, target_framework \in ResolverTargets,
       fetch_versions \in FetchOutcomes, fetch_metadata \in FetchOutcomes :
        /\ ~call.made
        /\ call' = [made |-> TRUE, package_id |-> package_id,
                    target_framework |-> target_framework,
                    fetch |-> IF fetch_versions # "ok" THEN fetch_versions
                              ELSE fetch_metadata]
        /\ result' = get_latest_compatible_version(package_id, target_framework,
                          [i \in 1..Len(catalog) |-> catalog[i].version],
                          catalog, fetch_versions, fetch_metadata)
        /\ UNCHANGED <<catalog, ic_target, ic_supported, ic_result,
                       jv_results, jv_target, jv_info,
                       nz_input, nz_outputs, history, rl_state, rl_now>>

NextLatest == GetLatestCompatibleVersion \/ ReturnToCaller

SpecLatest == Init /\ [][NextLatest]_vars

-----------------------------------------------------------------------------
(* SpecJava: _extract_java_compatibility_info applied to drawn results.    *)

\* the package name the Maven and Gradle checks pass: "group:artifact"
JavaPackage == <<"g",":","a">>

\* search results (title, link, snippet) the data source may return
SearchResults == {
    [title   |-> <<"g",":","a">>,
     link    |-> "https://a/1",
     snippet |-> <<"n","e","e","d","s"," ","j","a","v","a","8">>],
    [title   |-> <<"g",":","a">>,
     link    |-> "https://a/2",
     snippet |-> <<"b","u","i","l","t"," ","f","o","r"," ","j","a","v","a","1","7">>],
    [title   |-> <<"G",":","A"," ","o","n"," ","J","a","v","a","1","1">>,
     link    |-> "https://a/3",
     snippet |-> <<"t","e","s","t","e","d">>],
    [title   |-> <<"g",":","a">>,
     link    |-> "https://a/4",
     snippet |-> <<"j","a","v","a","2","1"," ","o","n","l","y">>],
    [title   |-> <<"g",":","a">>,
     link    |-> "https://a/5",
     snippet |-> <<"i","s"," ","c","o","m","p","a","t","i","b","l","e"," ","w","i","t","h"," ","j","a","v","a","1","7">>],
    [title   |-> <<"o","t","h","e","r">>,
     link    |-> "https://a/6",
     snippet |-> <<"r","u","n","s"," ","o","n"," ","j","a","v","a","8">>],
    [title   |-> <<"g",":","a">>,
     link    |-> "https://a/7",
     snippet |-> <<"w","e"," ","r","e","c","o","m","m","e","n","d"," ","j","a","v","a","1","1">>] }

\* longest result list drawn
MaxResults == 2

\* target_runtime spellings: every table key, and three strings that
\* are no key as written
JavaTargets == JavaKeys \cup { <<"J","a","v","a","1","7">>, <<"j","a","v","a","-","1","7">>, <<"j","a","v","a","9">> }

InitJava ==
    /\ jv_results \in SeqsUpTo(SearchResults, MaxResults)
    /\ jv_target \in JavaTargets
    /\ jv_info = NoInfo
    /\ CompatIdle
    /\ ResolverIdle
    /\ NormalizeIdle
    /\ HistoryIdle
    /\ RateIdle

\* one call of GoogleSearchAPI._extract_java_compatibility_info
ExtractJavaCompatibilityInfo ==
    /\ ~jv_info.returned
    /\ jv_info' = [returned |-> TRUE] @@
                  extract_java_compatibility_info(jv_results, JavaPackage, jv_target)
    /\ UNCHANGED <<jv_results, jv_target, ic_target, ic_supported, ic_result,
                   catalog, call, result,
                   nz_input, nz_outputs, history, rl_state, rl_now>>

NextJava == ExtractJavaCompatibilityInfo

SpecJava == InitJava /\ [][NextJava]_vars

-----------------------------------------------------------------------------
(* SpecMiner: the extraction functions of the generic check applied to     *)
(* drawn results.                                                          *)

\* the package name the generic check passes
MinerPackage == <<"P","k","g">>

\* search results (title, link, snippet) the data source may return
MinedResults == {
    \* "Pkg" / "compatible with net48"
    [title   |-> <<"P","k","g">>,
     link    |-> "https://m/1",
     snippet |-> <<"c","o","m","p","a","t","i","b","l","e"," ","w","i","t","h"," ","n","e","t","4","8">>],
    \* "PKG on NET48" / "Works With it; we suggest 10.0.0"
    [title   |-> <<"P","K","G"," ","o","n"," ","N","E","T","4","8">>,
     link    |-> "https://m/2",
     snippet |-> <<"W","o","r","k","s"," ","W","i","t","h"," ","i","t",";"," ","w","e"," ","s","u","g","g","e","s","t"," ","1","0",".","0",".","0">>],
    \* "pkg" / "runs on net6"
    [title   |-> <<"p","k","g">>,
     link    |-> "https://m/3",
     snippet |-> <<"r","u","n","s"," ","o","n"," ","n","e","t","6">>],
    \* "other" / "net48 supported"
    [title   |-> <<"o","t","h","e","r">>,
     link    |-> "https://m/4",
     snippet |-> <<"n","e","t","4","8"," ","s","u","p","p","o","r","t","e","d">>],
    \* "pkg net48" / "recommend 9.0.1 not 2.3"
    [title   |-> <<"p","k","g"," ","n","e","t","4","8">>,
     link    |-> "https://m/5",
     snippet |-> <<"r","e","c","o","m","m","e","n","d"," ","9",".","0",".","1"," ","n","o","t"," ","2",".","3">>],
    \* "CVE-2023-1234" / "Critical and high CVE-2024-12345678"
    [title   |-> <<"C","V","E","-","2","0","2","3","-","1","2","3","4">>,
     link    |-> "https://m/6",
     snippet |-> <<"C","r","i","t","i","c","a","l"," ","a","n","d"," ","h","i","g","h"," ","C","V","E","-","2","0","2","4","-","1","2","3","4","5","6","7","8">>],
    \* "pkg" / "cve-2023-1234 CVE-2023-123 low"
    [title   |-> <<"p","k","g">>,
     link    |-> "https://m/7",
     snippet |-> <<"c","v","e","-","2","0","2","3","-","1","2","3","4"," ","C","V","E","-","2","0","2","3","-","1","2","3"," ","l","o","w">>],
    \* "pkg 1.2.3.4" / "CVE-2020-00010 allowed"
    [title   |-> <<"p","k","g"," ","1",".","2",".","3",".","4">>,
     link    |-> "https://m/8",
     snippet |-> <<"C","V","E","-","2","0","2","0","-","0","0","0","1","0"," ","a","l","l","o","w","e","d">>],
    \* "pkg" / "medium CVE-2021-4444 High"
    [title   |-> <<"p","k","g">>,
     link    |-> "https://m/9",
     snippet |-> <<"m","e","d","i","u","m"," ","C","V","E","-","2","0","2","1","-","4","4","4","4"," ","H","i","g","h">>],
    \* "pkg" / "CVE-2022-5555 in 01.0.0 and 1.0.0"
    [title   |-> <<"p","k","g">>,
     link    |-> "https://m/10",
     snippet |-> <<"C","V","E","-","2","0","2","2","-","5","5","5","5"," ","i","n"," ","0","1",".","0",".","0"," ","a","n","d"," ","1",".","0",".","0">>],
    \* "pkg net48" / "use 1.2.3"
    [title   |-> <<"p","k","g"," ","n","e","t","4","8">>,
     link    |-> "https://m/11",
     snippet |-> <<"u","s","e"," ","1",".","2",".","3">>],
    \* "pkg net48" / "use 10.25.3"
    [title   |-> <<"p","k","g"," ","n","e","t","4","8">>,
     link    |-> "https://m/12",
     snippet |-> <<"u","s","e"," ","1","0",".","2","5",".","3">>],
    \* "Pkg NET48" / "9.0.0 or 10.0.0 or 9.0.0"
    [title   |-> <<"P","k","g"," ","N","E","T","4","8">>,
     link    |-> "https://m/13",
     snippet |-> <<"9",".","0",".","0"," ","o","r"," ","1","0",".","0",".","0"," ","o","r"," ","9",".","0",".","0">>] }

\* target_framework spellings passed
MinerTargets == { net48, <<"N","E","T","4","8">> }

InitMiner ==
    /\ jv_results \in SeqsUpTo(MinedResults, MaxResults)
    /\ jv_target \in MinerTargets
    /\ jv_info = NoInfo
    /\ CompatIdle
    /\ ResolverIdle
    /\ NormalizeIdle
    /\ HistoryIdle
    /\ RateIdle

\* one call of GoogleSearchAPI._extract_compatibility_info
ExtractCompatibilityInfo ==
    /\ ~jv_info.returned
    /\ jv_info' = [returned |-> TRUE, op |-> "compatibility"] @@
                  extract_compatibility_info(jv_results, MinerPackage, jv_target)
    /\ UNCHANGED <<jv_results, jv_target, ic_target, ic_supported, ic_result,
                   catalog, call, result, nz_input, nz_outputs, history, rl_state, rl_now>>

\* one call of GoogleSearchAPI._extract_vulnerability_info
ExtractVulnerabilityInfo ==
    /\ ~jv_info.returned
    /\ jv_info' = [returned |-> TRUE, op |-> "vulnerability"] @@
                  extract_vulnerability_info(jv_results, MinerPackage, v1_0_0)
    /\ UNCHANGED <<jv_results, jv_target, ic_target, ic_supported, ic_result,
                   catalog, call, result, nz_input, nz_outputs, history, rl_state, rl_now>>

\* one call of GoogleSearchAPI._extract_latest_version
ExtractLatestVersion ==
    /\ ~jv_info.returned
    /\ \E latest \in extract_latest_version(jv_results, MinerPackage) :
           jv_info' = [returned |-> TRUE, op |-> "latest",
                       latest_version |-> latest]
    /\ UNCHANGED <<jv_results, jv_target, ic_target, ic_supported, ic_result,
                   catalog, call, result, nz_input, nz_outputs, history, rl_state, rl_now>>

\* one call of GoogleSearchAPI.extract_versions
ExtractVersions ==
    /\ ~jv_info.returned
    /\ jv_info' = [returned |-> TRUE, op |-> "versions",
                   versions |-> extract_versions(jv_results, MinerPackage, jv_target)]
    /\ UNCHANGED <<jv_results, jv_target, ic_target, ic_supported, ic_result,
                   catalog, call, result, nz_input, nz_outputs, history,
                   rl_state, rl_now>>

NextMiner ==
    \/ ExtractCompatibilityInfo
    \/ ExtractVulnerabilityInfo
    \/ ExtractLatestVersion
    \/ ExtractVersions

SpecMiner == InitMiner /\ [][NextMiner]_vars

-----------------------------------------------------------------------------
(* SpecTools: the tool functions of tools.py called one after another, in  *)
(* whatever order their caller picks; agent.py registers them side by side *)
(* and nothing in the code orders them.  `history` lists the requests that *)
(* reached the registry and the search service.                            *)

\* the registry catalogs drawn: an empty one, and one whose only version
\* supports net45
ToolCatalogs == { <<>>,
                  <<[version |-> v1_0_0, dependencyGroups |-> <<net45>>]>> }

\* the arguments the tools are called with
ToolTargets  == {net48}
ToolCoordinates == [group_id |-> <<"g">>, artifact_id |-> <<"a">>]
ToolRuntimes == {Java(<<"1","7">>)}
BuildTools   == {<<"m","a","v","e","n">>, <<"g","r","a","d","l","e">>}

\* what the search service can do on one request
SearchOutcomes ==
    { [kind |-> "HttpError"], [kind |-> "Exception"],
      [kind |-> "ok", items |-> <<>>] }
    \cup { [kind |-> "ok", items |-> <<r>>] :
              r \in {m \in MinedResults : m.link = "https://m/2"}
                    \cup {m \in SearchResults : m.link = "https://a/5"} }

\* most requests in `history` when a tool call starts
MaxRequests == 2

InitTools ==
    /\ catalog \in ToolCatalogs
    /\ call = NoCall
    /\ result = NoResult
    /\ history = <<>>
    /\ CompatIdle
    /\ JavaIdle
    /\ NormalizeIdle
    /\ RateIdle

\* the search requests of one tool call as `history` keeps them: who sent
\* them, for which package and target, and whether the service failed
search_entries(tool, package, target, requests, outcomes) ==
    [k \in 1..Len(requests) |->
        [source |-> "search", tool |-> tool, package |-> package,
         target |-> target, query |-> requests[k].query,
         num |-> requests[k].num, failed |-> outcomes[k].kind # "ok"]]

\* tools.get_compatible_versions: the registry resolver
ToolGetCompatibleVersions ==
    \E package_id \in PackageIds, target_framework \in ToolTargets,
       fetch \in FetchOutcomes :
        LET envelope == get_compatible_versions(package_id, target_framework,
                                                catalog, fetch)
        IN  /\ Len(history) < MaxRequests
            /\ call' = [made |-> TRUE, tool |-> "get_compatible_versions",
                        package_id |-> package_id,
                        target_framework |-> target_framework]
            /\ result' = envelope
            /\ history' = Append(history,
                   [source |-> "registry", tool |-> "get_compatible_versions",
                    package |-> package_id, target |-> target_framework,
                    failed |-> fetch # "ok",
                    empty |-> /\ envelope.status = "success"
                              /\ envelope.compatible_versions = <<>>])
            /\ UNCHANGED <<catalog, ic_target, ic_supported, ic_result,
                           jv_results, jv_target, jv_info, nz_input, nz_outputs, rl_state, rl_now>>

\* tools.check_package_compatibility_web
ToolCheckPackageCompatibilityWeb ==
    \E package_name \in PackageIds, target_framework \in ToolTargets,
       outcomes \in [1..3 -> SearchOutcomes] :
        LET done == check_package_compatibility(package_name, v1_0_0,
                                                target_framework, outcomes)
        IN  /\ Len(history) < MaxRequests
            /\ call' = [made |-> TRUE, tool |-> "check_package_compatibility_web",
                        package_id |-> package_name,
                        target_framework |-> target_framework]
            /\ result' \in done.returns
            /\ history' = history \o
                   search_entries("check_package_compatibility_web", package_name,
                                  target_framework, done.requests, outcomes)
            /\ UNCHANGED <<catalog, ic_target, ic_supported, ic_result,
                           jv_results, jv_target, jv_info, nz_input, nz_outputs, rl_state, rl_now>>

\* tools.check_maven_compatibility and tools.check_gradle_compatibility
ToolCheckJavaCompatibility ==
    \E build_tool \in BuildTools, target_runtime \in ToolRuntimes,
       outcomes \in [1..3 -> SearchOutcomes] :
        LET group_id == ToolCoordinates.group_id
            artifact_id == ToolCoordinates.artifact_id
            done == check_java_compatibility(build_tool, group_id, artifact_id,
                                             v1_0_0, target_runtime, outcomes)
            tool == IF build_tool = <<"m","a","v","e","n">>
                    THEN "check_maven_compatibility"
                    ELSE "check_gradle_compatibility"
        IN  /\ Len(history) < MaxRequests
            /\ call' = [made |-> TRUE, tool |-> tool,
                        package_id |-> group_id \o <<":">> \o artifact_id,
                        target_framework |-> target_runtime]
            /\ result' \in done.returns
            /\ history' = history \o
                   search_entries(tool, group_id \o <<":">> \o artifact_id,
                                  target_runtime, done.requests, outcomes)
            /\ UNCHANGED <<catalog, ic_target, ic_supported, ic_result,
                           jv_results, jv_target, jv_info, nz_input, nz_outputs, rl_state, rl_now>>

\* tools.get_compatible_versions_fallback
ToolGetCompatibleVersionsFallback ==
    \E package_name \in PackageIds, target_framework \in ToolTargets,
       outcome \in SearchOutcomes :
        LET done == get_compatible_versions_fallback(package_name,
                                                     target_framework, outcome)
        IN  /\ Len(history) < MaxRequests
            /\ call' = [made |-> TRUE, tool |-> "get_compatible_versions_fallback",
                        package_id |-> package_name,
                        target_framework |-> target_framework]
            /\ result' \in done.returns
            /\ history' = history \o
                   search_entries("get_compatible_versions_fallback", package_name,
                                  target_framework, done.requests, <<outcome>>)
            /\ UNCHANGED <<catalog, ic_target, ic_supported, ic_result,
                           jv_results, jv_target, jv_info, nz_input, nz_outputs, rl_state, rl_now>>

NextTools ==
    \/ ToolGetCompatibleVersions
    \/ ToolCheckPackageCompatibilityWeb
    \/ ToolCheckJavaCompatibility
    \/ ToolGetCompatibleVersionsFallback

SpecTools == InitTools /\ [][NextTools]_vars

-----------------------------------------------------------------------------
(* SpecRate: rate_limit_callback invoked again and again on one callback   *)
(* state, the clock advancing between invocations and during a sleep.      *)

\* most invocations of the callback
MaxInvocations == 12

\* seconds the clock advances in one step between invocations
TickSecs == 30

\* latest clock reading from which the clock still advances between
\* invocations
MaxClock == 90

InitRate ==
    /\ rl_state = [set |-> FALSE]
    /\ rl_now = 0
    /\ history = <<>>
    /\ CompatIdle
    /\ ResolverIdle
    /\ JavaIdle
    /\ NormalizeIdle

\* one invocation of rate_limit_callback: time.time() is read, the state is
\* updated, time.sleep advances the clock, and the LLM request is released at
\* the moment the callback returns, which `history` records
RateLimitCallback ==
    /\ Len(history) < MaxInvocations
    /\ LET done == rate_limit_callback(rl_state, rl_now)
       IN  /\ rl_state' = done.state
           /\ rl_now' = rl_now + done.slept
           /\ history' = Append(history, [source |-> "llm",
                                          released |-> rl_now + done.slept])
    /\ UNCHANGED <<ic_target, ic_supported, ic_result, catalog, call, result,
                   jv_results, jv_target, jv_info, nz_input, nz_outputs>>

\* time passes between two invocations
ClockAdvances ==
    /\ rl_now < MaxClock
    /\ rl_now' = rl_now + TickSecs
    /\ UNCHANGED <<ic_target, ic_supported, ic_result, catalog, call, result,
                   jv_results, jv_target, jv_info, nz_input, nz_outputs,
                   history, rl_state>>

NextRate == RateLimitCallback \/ ClockAdvances

SpecRate == InitRate /\ [][NextRate]_vars

-----------------------------------------------------------------------------
(* SpecNormalize: _normalize_framework applied to a drawn string, and then *)
(* to its own output.                                                      *)

\* the characters the drawn strings are made of: letters of "net" in both
\* cases, both separators the normalizer removes, and a digit
NormalizeAlphabet == {"n", "e", "t", "N", ".", "-", "4"}

\* longest string drawn
MaxInput == 4

\* how many times the normalizer is applied in a row
MaxNormalize == 2

InitNormalize ==
    /\ nz_input \in SeqsUpTo(NormalizeAlphabet, MaxInput)
    /\ nz_outputs = <<>>
    /\ CompatIdle
    /\ ResolverIdle
    /\ JavaIdle
    /\ HistoryIdle
    /\ RateIdle

\* one call of NuGetAPI._normalize_framework, on the drawn string first and
\* on the previous output afterwards
NormalizeFramework ==
    /\ Len(nz_outputs) < MaxNormalize
    /\ nz_outputs' = Append(nz_outputs,
                        normalize_framework(IF nz_outputs = <<>> THEN nz_input
                                            ELSE nz_outputs[Len(nz_outputs)]))
    /\ UNCHANGED <<nz_input, ic_target, ic_supported, ic_result, catalog, call,
                   result, jv_results, jv_target, jv_info, history, rl_state, rl_now>>

NextNormalize == NormalizeFramework

SpecNormalize == InitNormalize /\ [][NextNormalize]_vars

-----------------------------------------------------------------------------
(* Claims about _is_framework_compatible, checked under SpecCompat.        *)

\* C1: is_compatible(t, S) is true exactly when normalize(t) is in S, or some
\* table key k has normalize(t) in table[k] and a member of table[k] in S;
\* otherwise it is false.  A direct match always returns true.
C1_IsCompatibleCharacterised ==
    ic_result.returned =>
        LET t == normalize_framework(ic_target)
        IN  /\ ic_result.value =
                  ( \/ t \in ic_supported
                    \/ \E k \in 1..Len(FRAMEWORK_COMPATIBILITY) :
                          /\ InList(t, FRAMEWORK_COMPATIBILITY[k].compatible)
                          /\ \E m \in ic_supported :
                                InList(m, FRAMEWORK_COMPATIBILITY[k].compatible) )
            /\ (t \in ic_supported => ic_result.value = TRUE)

\* C1 witness: a differently spelled target found compatible through the
\* table and not by a direct match
C1_Witness ==
    /\ ic_result.returned
    /\ ic_result.value = TRUE
    /\ ic_target # normalize_framework(ic_target)
    /\ normalize_framework(ic_target) \notin ic_supported

\* C3: for lineage identifiers t, s with t in the table's list for s,
\* is_compatible(t, {s}) is true; in particular is_compatible(net45, {net48}).
C3_TransitiveLineage ==
    ( /\ ic_result.returned
      /\ ic_target \in Lineage
      /\ \E s \in Lineage :
            ic_supported = {s} /\ InList(ic_target, compatible_list(s)) )
    => ic_result.value = TRUE

\* C3 witness: is_compatible(net45, {net48}) has returned true
C3_Witness ==
    /\ ic_result.returned
    /\ ic_target = net45
    /\ ic_supported = {net48}
    /\ ic_result.value = TRUE

\* C4 as stated: is_compatible(net48, {net20}) is false
C4_Net20NotCompatibleWithNet48 ==
    ( /\ ic_result.returned
      /\ ic_target = net48
      /\ ic_supported = {net20} )
    => ic_result.value = FALSE

\* C4 amended: is_compatible(net48, {net20}) is true, for every spelling of
\* the target that normalizes to net48: net48 and net20 are both members of
\* one table list, which is all the lookup asks for
C4_Net20CompatibleWithNet48 ==
    ( /\ ic_result.returned
      /\ normalize_framework(ic_target) = net48
      /\ ic_supported = {net20} )
    => ic_result.value = TRUE

\* C4 witness: the call is_compatible(net48, {net20}) has returned
C4_Witness ==
    /\ ic_result.returned
    /\ ic_target = net48
    /\ ic_supported = {net20}
    /\ ic_result.value = TRUE

-----------------------------------------------------------------------------
(* Claims about get_compatible_versions, checked under Spec.               *)

Succeeded == call.made /\ result.status = "success"

\* the catalog entries whose version is a string that is no version
Unparseable(cat) ==
    {i \in 1..Len(cat) : Version(cat[i].version).raised = "InvalidVersion"}

\* the catalog entries with no version field
Versionless(cat) == {i \in 1..Len(cat) : cat[i].version = None}

\* the catalog without the entries at the indices in `drop`
RECURSIVE Without(_, _, _)
Without(cat, drop, i) ==
    IF i > Len(cat) THEN <<>>
    ELSE (IF i \in drop THEN <<>> ELSE <<cat[i]>>) \o Without(cat, drop, i + 1)

\* the entry at index i is one the target is compatible with
EntryCompatible(cat, i, target) ==
    /\ Version(cat[i].version).raised = "ok"
    /\ is_framework_compatible(normalize_framework(target),
           get_supported_frameworks(cat[i].dependencyGroups))

\* the catalog of the end-to-end scenario: 1.0.0 declares net45 only,
\* 2.0.0 declares netstandard2.0 only
ScenarioCatalog ==
    << [version |-> v1_0_0, dependencyGroups |-> <<net45>>],
       [version |-> v2_0_0, dependencyGroups |-> <<netstandard2_0>>] >>

\* C2: against the scenario catalog, get_compatible_versions("pkg", "net48")
\* returns success with "2.0.0" among compatible_versions
C2_NetStandardVersionCompatible ==
    ( /\ call.made
      /\ call.fetch = "ok"
      /\ call.target_framework = net48
      /\ catalog = ScenarioCatalog )
    => /\ result.status = "success"
       /\ InList(v2_0_0, result.compatible_versions)

\* C6: on success compatible_versions is in descending order of the parsed
\* versions, and latest_compatible is its first element, the maximum, or
\* None when it is empty
C6_SortedDescendingLatestFirst ==
    Succeeded =>
        LET cv == result.compatible_versions
        IN  /\ \A i, j \in 1..Len(cv) :
                   i < j => ~KeyLess(Version(cv[i]).key, Version(cv[j]).key)
            /\ cv = <<>> => result.latest_compatible = None
            /\ cv # <<>> =>
                   /\ result.latest_compatible = cv[1]
                   /\ \A j \in 1..Len(cv) :
                          ~KeyLess(Version(result.latest_compatible).key,
                                   Version(cv[j]).key)

\* C6 witness: 9.0.0 is listed before 10.0.0 in the catalog and after it in
\* the result
C6_Witness ==
    /\ Succeeded
    /\ Len(catalog) = 2
    /\ catalog[1].version = v9_0_0
    /\ catalog[2].version = v10_0_0
    /\ result.compatible_versions = <<v10_0_0, v9_0_0>>
    /\ result.latest_compatible = v10_0_0

\* C7: when the fetch succeeds and no entry of the catalog is compatible with
\* the target, the envelope is success with compatible_versions = [] and
\* latest_compatible = None, never an error
C7_EmptyResultIsSuccess ==
    ( /\ call.made
      /\ call.fetch = "ok"
      /\ \A i \in 1..Len(catalog) :
             ~EntryCompatible(catalog, i, call.target_framework) )
    => /\ result.status = "success"
       /\ result.compatible_versions = <<>>
       /\ result.latest_compatible = None

\* C7 on catalogs whose entries all carry a version: there the empty result
\* is a success
C7_EmptyResultIsSuccessWhenVersioned ==
    ( /\ call.made
      /\ call.fetch = "ok"
      /\ Versionless(catalog) = {}
      /\ \A i \in 1..Len(catalog) :
             ~EntryCompatible(catalog, i, call.target_framework) )
    => /\ result.status = "success"
       /\ result.compatible_versions = <<>>
       /\ result.latest_compatible = None

C9_VersionlessEntrySkipped ==
    ( /\ call.made
      /\ call.fetch = "ok"
      /\ Versionless(catalog) # {} )
    => /\ result.status = "success"
       /\ \A i \in 1..Len(catalog) :
              EntryCompatible(catalog, i, call.target_framework)
                  => InList(catalog[i].version, result.compatible_versions)

\* C10: when the registry call fails the envelope is an error with a message
\* and without compatible_versions, latest_compatible and version_details
C10_FetchFailureIsError ==
    (call.made /\ call.fetch # "ok") =>
        /\ result.status = "error"
        /\ "message" \in DOMAIN result
        /\ DOMAIN result \cap
               {"compatible_versions", "latest_compatible", "version_details"}
           = {}

\* C10 witness: an HTTP 500 answer for a package whose catalog holds a
\* version compatible with the target
C10_Witness ==
    /\ call.made
    /\ call.fetch = "HTTPError 500"
    /\ result.status = "error"
    /\ \E i \in 1..Len(catalog) :
           EntryCompatible(catalog, i, call.target_framework)

-----------------------------------------------------------------------------
(* Claims about the runtime chain check, checked under SpecJava.           *)

\* C5: with no keyword evidence, a target key a and one discovered runtime
\* b # a give compatible exactly when b is in table[a], and never both for
\* (a, b) and for (b, a); (java17, {java8}) is compatible and
\* (java8, {java17}) is not
C5_RuntimeChainAsymmetric ==
    ( /\ jv_info.returned
      /\ jv_info.evidence = <<>>
      /\ jv_target \in JavaKeys )
    => \A b \in JavaKeys \ {jv_target} :
           jv_info.supported_runtimes = <<b>> =>
               /\ jv_info.is_compatible = InList(b, java_compatible_list(jv_target))
               /\ ~(jv_info.is_compatible /\ runtime_chain(b, {jv_target}))
               /\ (jv_target = java17 /\ b = java8) => jv_info.is_compatible
               /\ (jv_target = java8 /\ b = java17) => ~jv_info.is_compatible

\* C5 witness: target java17, java8 the only runtime discovered, no keyword
\* evidence, found compatible through the chain
C5_Witness ==
    /\ jv_info.returned
    /\ jv_target = java17
    /\ jv_info.evidence = <<>>
    /\ jv_info.supported_runtimes = <<java8>>
    /\ jv_info.is_compatible

-----------------------------------------------------------------------------
(* Claims about _normalize_framework, checked under SpecNormalize.         *)

\* C14: normalize(normalize(s)) = normalize(s) for every string s: applying
\* the normalizer to its own output returns that output unchanged.
C14_NormalizeIdempotent ==
    \A i \in 2..Len(nz_outputs) : nz_outputs[i] = nz_outputs[1]

\* "N.et" was normalized to "net", and the second application has returned
C14_Witness ==
    /\ nz_input = <<"N",".","e","t">>
    /\ Len(nz_outputs) >= 2
    /\ nz_outputs[1] = S_net

\* C15: normalize is total; its result is the input lowercased with every '.'
\* and '-' removed, prefixed with "net" exactly when the stripped form does
\* not already start with "net"; hence every output starts with "net" and
\* holds no '.', no '-' and no uppercase letter.
C15_NormalizeCharacterised ==
    Len(nz_outputs) >= 1 =>
        LET out == nz_outputs[1]
            stripped == SelectSeq(Lower(nz_input),
                                  LAMBDA c : c \notin {".", "-"})
        IN  /\ out = IF StartsWith(stripped, S_net) THEN stripped
                     ELSE S_net \o stripped
            /\ StartsWith(out, S_net)
            /\ \A i \in 1..Len(out) :
                   /\ out[i] \notin {".", "-"}
                   /\ ~InList(out[i], UpperChars)

\* "4-.N" has no "net" prefix once stripped and came back as "net4n"
C15_Witness ==
    /\ nz_input = <<"4","-",".","N">>
    /\ Len(nz_outputs) >= 1
    /\ nz_outputs[1] = <<"n","e","t","4","n">>

-----------------------------------------------------------------------------
(* Claims about the operations' envelopes.                                 *)

\* C11: every public operation returns an envelope whose status is "success"
\* or "error" for every outcome of its data source, malformed data included
\* (a record whose version is missing in get_versions); no raw exception
\* ever leaves the operation.  Checked for get_package_versions under
\* SpecVersions.
C11_EveryOutcomeIsAnEnvelope ==
    call.made => result.status \in {"success", "error"}

-----------------------------------------------------------------------------
(* Claims about the extraction functions of the generic check, checked     *)
(* under SpecMiner.                                                        *)

\* C17: a snippet is appended to the evidence if and only if its lowercased
\* title+snippet text contains the package name, the target, and at least one
\* of "compatible", "supported", "works with", "runs on" (name and target
\* compared lowercased); the evidence keeps the snippets' order, and
\* is_compatible is true exactly when the evidence is non-empty.
C17_EvidenceIffMentionedWithIndicator ==
    (jv_info.returned /\ jv_info.op = "compatibility") =>
        LET Text(r) == Lower(r.title \o <<" ">> \o r.snippet)
            Qualifies(r) ==
                /\ Contains(Text(r), Lower(MinerPackage))
                /\ Contains(Text(r), Lower(jv_target))
                /\ \E w \in {W_compatible, W_supported, W_works_with, W_runs_on} :
                       Contains(Text(r), w)
            kept == SelectSeq(jv_results, Qualifies)
        IN  /\ jv_info.evidence =
                   [k \in 1..Len(kept) |->
                       [source |-> kept[k].link, text |-> kept[k].snippet]]
            /\ jv_info.is_compatible = (jv_info.evidence # <<>>)

\* "other / net48 supported" was passed over and "PKG on NET48 / Works With
\* it" became the only evidence
C17_Witness ==
    /\ jv_info.returned /\ jv_info.op = "compatibility"
    /\ Len(jv_results) >= 2
    /\ jv_results[1].link = "https://m/4"
    /\ jv_results[2].link = "https://m/2"
    /\ Len(jv_info.evidence) = 1
    /\ jv_info.evidence[1].source = "https://m/2"

\* the length of the CVE identifier written at text[i]: "CVE-", four digits,
\* "-", and the longest run of four to seven digits; 0 when none is written
CveLengthAt(text, i) ==
    LET Written(n) ==
            /\ i + 8 + n <= Len(text)
            /\ SubSeq(text, i, i + 3) = <<"C","V","E","-">>
            /\ \A j \in 4..7 : IsDigit(text[i + j])
            /\ text[i + 8] = "-"
            /\ \A j \in 9..(8 + n) : IsDigit(text[i + j])
    IN  IF \E n \in 4..7 : Written(n)
        THEN 9 + CHOOSE n \in 4..7 :
                     Written(n) /\ \A m \in (n + 1)..7 : ~Written(m)
        ELSE 0

\* the identifiers written in the results from index i on, with the link of
\* the result each stands in, in reading order
RECURSIVE CveOccurrences(_, _)
CveOccurrences(results, i) ==
    IF i > Len(results) THEN <<>>
    ELSE LET text == results[i].title \o <<" ">> \o results[i].snippet
             at == SelectSeq([j \in 1..Len(text) |-> j],
                             LAMBDA j : CveLengthAt(text, j) > 0)
         IN  [k \in 1..Len(at) |->
                 [id |-> SubSeq(text, at[k], at[k] + CveLengthAt(text, at[k]) - 1),
                  source |-> results[i].link]]
             \o CveOccurrences(results, i + 1)

\* C18: vulnerability extraction yields exactly one record per match of
\* CVE-\d{4}-\d{4,7}, in order of occurrence across the snippets, and
\* has_vulnerabilities is true exactly when there is at least one record.
C18_OneRecordPerCveMatch ==
    (jv_info.returned /\ jv_info.op = "vulnerability") =>
        /\ [k \in 1..Len(jv_info.vulnerabilities) |->
               [id |-> jv_info.vulnerabilities[k].id,
                source |-> jv_info.vulnerabilities[k].source]]
           = CveOccurrences(jv_results, 1)
        /\ jv_info.has_vulnerabilities = (Len(jv_info.vulnerabilities) >= 1)

\* two identifiers of one result (the second cut at seven digits) and one of
\* the next result gave three records in that order
C18_Witness ==
    /\ jv_info.returned /\ jv_info.op = "vulnerability"
    /\ Len(jv_info.vulnerabilities) = 3
    /\ jv_info.vulnerabilities[1].id = <<"C","V","E","-","2","0","2","3","-","1","2","3","4">>
    /\ jv_info.vulnerabilities[2].id = <<"C","V","E","-","2","0","2","4","-","1","2","3","4","5","6","7">>
    /\ jv_info.vulnerabilities[3].id = <<"C","V","E","-","2","0","2","0","-","0","0","0","1","0">>
    /\ jv_info.has_vulnerabilities

\* C19: a record's severity is the first keyword of the ordered list
\* critical, high, medium, low that occurs, case-insensitively, in the text of
\* its snippet, and "unknown" when none occurs.
C19_SeverityFirstKeyword ==
    (jv_info.returned /\ jv_info.op = "vulnerability") =>
        \A k \in 1..Len(jv_info.vulnerabilities) :
            \A n \in 1..Len(jv_results) :
                jv_results[n].link = jv_info.vulnerabilities[k].source =>
                    LET t == Lower(jv_results[n].title \o <<" ">>
                                   \o jv_results[n].snippet)
                        keywords == <<<<"c","r","i","t","i","c","a","l">>, <<"h","i","g","h">>, <<"m","e","d","i","u","m">>, <<"l","o","w">>>>
                        severity == jv_info.vulnerabilities[k].severity
                    IN  \/ \E a \in 1..Len(keywords) :
                              /\ severity = keywords[a]
                              /\ Contains(t, keywords[a])
                              /\ \A b \in 1..(a - 1) : ~Contains(t, keywords[b])
                        \/ /\ severity = S_unknown
                           /\ \A a \in 1..Len(keywords) : ~Contains(t, keywords[a])

\* "medium CVE-2021-4444 High" was rated high, and a snippet naming no
\* keyword was rated unknown
C19_Witness ==
    /\ jv_info.returned /\ jv_info.op = "vulnerability"
    /\ Len(jv_info.vulnerabilities) = 2
    /\ jv_info.vulnerabilities[1].source = "https://m/9"
    /\ jv_info.vulnerabilities[1].severity = <<"h","i","g","h">>
    /\ jv_info.vulnerabilities[2].source = "https://m/10"
    /\ jv_info.vulnerabilities[2].severity = S_unknown

\* C20: latest-version selection returns a maximum of the three-component
\* versions found, compared as tuples of integers (of 9.0.1, 10.0.0 and the
\* two-component 2.3 it returns 10.0.0), and "unknown" exactly when no
\* three-component version is found.
C20_LatestIsIntegerTupleMaximum ==
    (jv_info.returned /\ jv_info.op = "latest") =>
        LET found == versions_found(jv_results)
            Tuple3(v) == <<ParseInt(Split(v, ".")[1]), ParseInt(Split(v, ".")[2]),
                           ParseInt(Split(v, ".")[3])>>
            AtLeast(a, b) ==
                \/ a[1] > b[1]
                \/ a[1] = b[1] /\ a[2] > b[2]
                \/ a[1] = b[1] /\ a[2] = b[2] /\ a[3] >= b[3]
            latest == jv_info.latest_version
        IN  /\ (latest = S_unknown) = (found = {})
            /\ found # {} =>
                   /\ latest \in found
                   /\ \A w \in found : AtLeast(Tuple3(latest), Tuple3(w))
            /\ found = {<<"9",".","0",".","1">>, <<"1","0",".","0",".","0">>} => latest = <<"1","0",".","0",".","0">>

\* "recommend 9.0.1 not 2.3" and "we suggest 10.0.0" were searched and 10.0.0
\* came back
C20_Witness ==
    /\ jv_info.returned /\ jv_info.op = "latest"
    /\ Len(jv_results) = 2
    /\ jv_results[1].link = "https://m/5"
    /\ jv_results[2].link = "https://m/2"
    /\ jv_info.latest_version = <<"1","0",".","0",".","0">>

-----------------------------------------------------------------------------
(* Claims about the search path, checked under SpecTools.                  *)

\* C12: when a search call fails during check_compatibility (generic, Maven
\* or Gradle), the operation returns the error envelope; a failed search is
\* never reported as status "success" with empty evidence, no
\* vulnerabilities and latest_version "unknown".
C12_FailedSearchIsError ==
    ( /\ call.made
      /\ call.tool \in {"check_package_compatibility_web",
                        "check_maven_compatibility",
                        "check_gradle_compatibility"}
      /\ \E k \in (Len(history) - 2)..Len(history) : history[k].failed )
    => result.status = "error"

\* C13: the search data source is consulted only after the registry resolver
\* has been tried for the same package and target and returned no result
\* (empty compatible_versions); no search request is sent when the registry
\* path gave a non-empty result or has not been tried.
C13_SearchOnlyAfterEmptyRegistryResult ==
    \A k \in 1..Len(history) :
        history[k].source = "search" =>
            \E j \in 1..(k - 1) :
                /\ history[j].source = "registry"
                /\ history[j].package = history[k].package
                /\ history[j].target = history[k].target
                /\ history[j].empty

-----------------------------------------------------------------------------
(* Claim about the spelling of targets, checked under SpecJava.            *)

\* C16: equality and membership checks compare normalized forms: two target
\* spellings with the same normalized form ("java-17" and "java17", "net4.8"
\* and "net48") get the same result against the same data from
\* get_dependencies, from the runtime-chain check and from extract_versions.
\* Stated for the runtime-chain check over the runtimes discovered in the
\* results.
C16_EqualNormalizedFormsAgree ==
    jv_info.returned =>
        LET discovered == {jv_info.supported_runtimes[k] :
                              k \in 1..Len(jv_info.supported_runtimes)}
        IN  \A t \in JavaTargets :
                normalize_framework(t) = normalize_framework(jv_target) =>
                    runtime_chain(t, discovered)
                        = runtime_chain(jv_target, discovered)

-----------------------------------------------------------------------------
(* Claims about extract_versions, checked under SpecMiner.                 *)

\* C21: extract_versions returns a duplicate-free sequence sorted descending
\* as plain strings (so "9.0.0" precedes "10.0.0"), holding only version
\* tokens taken from results whose title+snippet text contains, whatever the
\* case, both the package name and the target; results lacking either
\* contribute nothing.
C21_VersionsSortedFromMentioningResults ==
    (jv_info.returned /\ jv_info.op = "versions") =>
        LET versions == jv_info.versions
            Text(r) == Lower(r.title \o <<" ">> \o r.snippet)
            Mentions(r) == /\ Contains(Text(r), Lower(MinerPackage))
                           /\ Contains(Text(r), Lower(jv_target))
            IsToken(v) == IsRelease(v) /\ Len(Split(v, ".")) \in {2, 3}
        IN  /\ \A i \in 1..Len(versions) : \A j \in (i + 1)..Len(versions) :
                   versions[i] # versions[j] /\ StrLess(versions[j], versions[i])
            /\ \A i \in 1..Len(versions) :
                   /\ IsToken(versions[i])
                   /\ \E n \in 1..Len(jv_results) :
                          /\ Mentions(jv_results[n])
                          /\ Contains(Text(jv_results[n]), versions[i])
            /\ (\A n \in 1..Len(jv_results) : ~Mentions(jv_results[n])) =>
                   versions = <<>>

\* "9.0.0 or 10.0.0 or 9.0.0" next to a result that lacks the target: 9.0.0
\* comes once and before 10.0.0, and nothing of "pkg 1.2.3.4" is taken
C21_Witness ==
    /\ jv_info.returned /\ jv_info.op = "versions"
    /\ Len(jv_results) = 2
    /\ jv_results[1].link = "https://m/8"
    /\ jv_results[2].link = "https://m/13"
    /\ Len(jv_info.versions) >= 2
    /\ jv_info.versions[1] = <<"9",".","0",".","0">>
    /\ jv_info.versions[2] = <<"1","0",".","0",".","0">>
    /\ \A i \in 1..Len(jv_info.versions) : jv_info.versions[i] # <<"1",".","2",".","3">>

\* C22: a two-component token x.y is recognized only when no third component
\* follows it: a result whose only numeric token is a three-component version
\* a.b.c ("1.2.3", "10.25.3") yields exactly [a.b.c], with no two-component
\* fragment of it ("2.3", "10.2").
C22_NoFragmentOfThreeComponentVersion ==
    ( /\ jv_info.returned /\ jv_info.op = "versions"
      /\ Len(jv_results) = 1
      /\ jv_results[1].link \in {"https://m/11", "https://m/12"} )
    => \/ jv_info.versions = <<<<"1",".","2",".","3">>>>
       \/ jv_info.versions = <<<<"1","0",".","2","5",".","3">>>>

-----------------------------------------------------------------------------
(* Claim about the searches of one check, checked under SpecTools.         *)

\* C23: every invocation of check_compatibility (generic, Maven, Gradle)
\* sends exactly three requests to the search service, in the order
\* compatibility query, vulnerability query, latest-version query, asking for
\* at most 5, 5 and 3 results, whatever the earlier requests returned.
C23_ThreeSearchesInOrder ==
    [][ ( /\ call'.made
          /\ call'.tool \in {"check_package_compatibility_web",
                             "check_maven_compatibility",
                             "check_gradle_compatibility"}
          /\ history' # history )
        => LET sent == SubSeq(history', Len(history) + 1, Len(history'))
           IN  /\ SubSeq(history', 1, Len(history)) = history
               /\ Len(sent) = 3
               /\ \A k \in 1..3 : /\ sent[k].source = "search"
                                  /\ sent[k].tool = call'.tool
               /\ Contains(sent[1].query, <<" ","c","o","m","p","a","t","i","b","i","l","i","t","y"," ">>)
               /\ Contains(sent[2].query, <<" ","v","u","l","n","e","r","a","b","i","l","i","t","i","e","s"," ","C","V","E">>)
               /\ Contains(sent[3].query, <<" ","l","a","t","e","s","t"," ","v","e","r","s","i","o","n">>)
               /\ sent[1].num <= 5 /\ sent[2].num <= 5 /\ sent[3].num <= 3
      ]_vars

\* a Maven check whose first search failed and whose third search was still
\* sent, asking for three results
C23_Witness ==
    /\ call.made /\ call.tool = "check_maven_compatibility"
    /\ Len(history) = 3
    /\ history[1].failed
    /\ history[3].num = 3
    /\ Contains(history[3].query, <<" ","l","a","t","e","s","t"," ","v","e","r","s","i","o","n">>)

-----------------------------------------------------------------------------
(* Claims about the two static tables, checked under SpecCompat.           *)

\* the .NET Framework lineage, oldest first
NetLineageOrder ==
    <<Net(<<"2","0">>), Net(<<"3","5">>), Net(<<"4","0">>), Net(<<"4","5">>),
      Net(<<"4","5","1">>), Net(<<"4","5","2">>), Net(<<"4","6">>),
      Net(<<"4","6","1">>), Net(<<"4","6","2">>), Net(<<"4","7">>),
      Net(<<"4","7","1">>), Net(<<"4","7","2">>), Net(<<"4","8">>)>>

\* the Java lineage, oldest first
JavaLineageOrder ==
    <<Java(<<"8">>), Java(<<"1","1">>), Java(<<"1","2">>), Java(<<"1","3">>),
      Java(<<"1","4">>), Java(<<"1","5">>), Java(<<"1","6">>),
      Java(<<"1","7">>), Java(<<"1","8">>), Java(<<"1","9">>),
      Java(<<"2","0">>), Java(<<"2","1">>)>>

\* every member of `order` is a key of `table`, and its list holds every
\* older member of `order` and no newer one
EverythingOlder(table, order) ==
    \A a \in 1..Len(order) :
        /\ \E i \in 1..Len(table) : table[i].key = order[a]
        /\ \A i \in 1..Len(table) :
               table[i].key = order[a] =>
                   \A b \in 1..Len(order) :
                       /\ b < a => InList(order[b], table[i].compatible)
                       /\ b > a => ~InList(order[b], table[i].compatible)

\* if b is in table[a] and b is a key then table[b] is a subset of table[a]
TransitivelyClosed(table) ==
    \A i, j \in 1..Len(table) :
        InList(table[j].key, table[i].compatible) =>
            \A x \in 1..Len(table[j].compatible) :
                InList(table[j].compatible[x], table[i].compatible)

\* C24: for every key k of the .NET Framework lineage and of the Java lineage
\* the table's list for k holds every lineage identifier older than k and none
\* newer than k, and both tables are transitively closed; stated of the tables
\* every lookup that has returned was answered from.
C24_EverythingOlder ==
    ic_result.returned =>
        /\ EverythingOlder(FRAMEWORK_COMPATIBILITY, NetLineageOrder)
        /\ EverythingOlder(JAVA_RUNTIME_COMPATIBILITY, JavaLineageOrder)
        /\ TransitivelyClosed(FRAMEWORK_COMPATIBILITY)
        /\ TransitivelyClosed(JAVA_RUNTIME_COMPATIBILITY)

\* the table's list of net45 has answered for a package that supports only
\* the oldest lineage member
C24_Witness ==
    /\ ic_result.returned
    /\ ic_target = net45
    /\ ic_supported = {net20}
    /\ ic_result.value = TRUE
    /\ InList(net20, compatible_list(net45))

\* the members of the .NET Framework lineage, as a set
NetLineageSet == {NetLineageOrder[i] : i \in 1..Len(NetLineageOrder)}

\* C26: once a lookup for a target of the .NET Framework lineage has returned,
\* its answer is the answer for every other lineage member and the same
\* supported set, and it is true exactly when the supported set holds at least
\* one lineage member.
C26_LineageTargetsAgree ==
    ( /\ ic_result.returned
      /\ normalize_framework(ic_target) \in NetLineageSet )
    => /\ ic_result.value = (ic_supported \cap NetLineageSet # {})
       /\ \A t2 \in NetLineageSet :
              is_framework_compatible(t2, ic_supported) = ic_result.value

\* the oldest lineage member is answered for through the list of a newer one
C26_Witness ==
    /\ ic_result.returned
    /\ ic_target = net20
    /\ ic_supported = {net48}
    /\ ic_result.value = TRUE

\* every identifier that stands in some list of FRAMEWORK_COMPATIBILITY
ListedSomewhere ==
    UNION { {FRAMEWORK_COMPATIBILITY[i].compatible[j] :
                 j \in 1..Len(FRAMEWORK_COMPATIBILITY[i].compatible)} :
            i \in 1..Len(FRAMEWORK_COMPATIBILITY) }

\* C27: once a lookup has returned for a target whose normalized form stands
\* in no list of the table, the answer is true if and only if the normalized
\* target is a member of the supported set; and for an empty supported set the
\* answer is false whatever the target.
C27_UnlistedTargetNeedsDirectMatch ==
    ic_result.returned =>
        /\ normalize_framework(ic_target) \notin ListedSomewhere =>
               ic_result.value = (normalize_framework(ic_target) \in ic_supported)
        /\ ic_supported = {} => ic_result.value = FALSE

\* netstandard2.0 is asked for and only lineage members are supported: the
\* entry keyed "netstandard2.0" is not used
C27_Witness ==
    /\ ic_result.returned
    /\ ic_target = netstandard2_0
    /\ ic_supported = {net48}
    /\ ic_result.value = FALSE

-----------------------------------------------------------------------------
(* A further claim about get_compatible_versions, checked under Spec.      *)

\* C28: in every successful result of get_compatible_versions the lists
\* version_details and compatible_versions have the same length and hold the
\* same version at every index.
C28_DetailsAlignedWithVersions ==
    result.status = "success" =>
        /\ Len(result.version_details) = Len(result.compatible_versions)
        /\ \A i \in 1..Len(result.compatible_versions) :
               result.version_details[i].version = result.compatible_versions[i]

\* two compatible versions that compare equal, returned in catalog order
C28_Witness ==
    /\ result.status = "success"
    /\ result.compatible_versions = <<v1_0, v1_0_0>>
    /\ result.version_details[1].version = v1_0
    /\ catalog[1].version = v1_0

-----------------------------------------------------------------------------
(* A further claim about _extract_java_compatibility_info, checked under   *)
(* SpecJava.                                                               *)

\* the runtimes of a returned supported_runtimes list, as a set
DiscoveredRuntimes ==
    {jv_info.supported_runtimes[k] : k \in 1..Len(jv_info.supported_runtimes)}

\* is_compatible is true exactly when evidence is non-empty or some discovered
\* runtime is in the table's list of the lowercased target
IffEvidenceOrChain ==
    jv_info.is_compatible
        = ( \/ jv_info.evidence # <<>>
            \/ \E r \in DiscoveredRuntimes :
                   InList(r, java_compatible_list(Lower(jv_target))) )

\* with no compatibility keyword in any result, results that mention no
\* runtime but the target key itself do not establish compatibility
TargetAloneNeverEstablishes ==
    ( /\ jv_target \in JavaKeys
      /\ \A n \in 1..Len(jv_results) : ~has_indicator(result_text(jv_results[n]))
      /\ DiscoveredRuntimes = {jv_target} )
    => ~jv_info.is_compatible

\* supported_runtimes is duplicate-free and ascending as strings
RuntimesSortedAsStrings ==
    \A i \in 1..Len(jv_info.supported_runtimes) :
        \A j \in (i + 1)..Len(jv_info.supported_runtimes) :
            StrLess(jv_info.supported_runtimes[i], jv_info.supported_runtimes[j])

\* C29: in the Java extraction is_compatible is true exactly when evidence is
\* non-empty or some discovered runtime is in the table's list of the
\* lowercased target; with no compatibility keyword in any snippet, a snippet
\* that mentions only the target runtime itself never establishes
\* compatibility, for every target key java8 ... java21; and
\* supported_runtimes is a duplicate-free sequence sorted as strings.
C29_JavaCompatibilityCharacterised ==
    jv_info.returned =>
        /\ IffEvidenceOrChain
        /\ TargetAloneNeverEstablishes
        /\ RuntimesSortedAsStrings

-----------------------------------------------------------------------------
(* Claim about get_latest_compatible_version, checked under SpecLatest.    *)

\* C25: when the version list is non-empty and at least one catalog version
\* has a dependency group whose normalized target framework contains or is
\* contained in the normalized target, get_latest_compatible_version returns
\* status "success" with those versions in descending parsed order and
\* latest_compatible their maximum; the "No compatible versions found." error
\* is returned only when no version matches.
C25_LatestCompatibleFound ==
    (call.made /\ call.fetch = "ok" /\ catalog # <<>>) =>
        LET Norm(f) == Remove(Remove(Lower(f), "."), "-")
            Matches(e) ==
                \E g \in 1..Len(e.dependencyGroups) :
                    \/ Contains(Norm(e.dependencyGroups[g]), Norm(call.target_framework))
                    \/ Contains(Norm(call.target_framework), Norm(e.dependencyGroups[g]))
            matching == SelectSeq(catalog, Matches)
            found == [k \in 1..Len(matching) |-> matching[k].version]
            parse == \A k \in 1..Len(found) : Version(found[k]).raised = "ok"
        IN  /\ (found # <<>> /\ parse) =>
                   /\ result.status = "success"
                   /\ Len(result.compatible_versions) = Len(found)
                   /\ \A k \in 1..Len(found) :
                          \E n \in 1..Len(found) : result.compatible_versions[n] = found[k]
                   /\ \A k \in 1..(Len(found) - 1) :
                          ~KeyLess(Version(result.compatible_versions[k]).key,
                                   Version(result.compatible_versions[k + 1]).key)
                   /\ result.latest_compatible = result.compatible_versions[1]
            /\ ( /\ result.status = "error"
                 /\ result.message = <<"No compatible versions found.">> )
               => found = <<>>

-----------------------------------------------------------------------------
(* Claim about rate_limit_callback, checked under SpecRate.                *)

\* the stored request_count is between 1 and RPM_QUOTA after an invocation
\* has returned
RequestCountInQuota ==
    rl_state.set => rl_state.request_count \in 1..RPM_QUOTA

\* at most RPM_QUOTA releases fall into any interval of RATE_LIMIT_SECS
\* seconds (taken from a release on, its end excluded)
AtMostQuotaPerInterval ==
    \A i \in 1..Len(history) :
        Cardinality({j \in 1..Len(history) :
                        /\ history[j].released >= history[i].released
                        /\ history[j].released
                               < history[i].released + RATE_LIMIT_SECS})
            <= RPM_QUOTA

\* C30: over any sequence of rate_limit_callback invocations on one callback
\* state, with a non-decreasing clock that sleep advances, at most RPM_QUOTA
\* (10) invocations return within any interval of RATE_LIMIT_SECS (60)
\* seconds, and the stored request_count is between 1 and RPM_QUOTA after an
\* invocation returns.
C30_AtMostQuotaPerWindow ==
    /\ AtMostQuotaPerInterval
    /\ RequestCountInQuota

====
